---- MODULE Spec2Model ----
(***************************************************************************)
(* standalone-monarch: the line tokenization adapters, the metadata word   *)
(* and setMonarchTokensProvider of                                         *)
(* vs/editor/standalone/browser/standaloneLanguages.ts, the color registry *)
(* (ColorRegistry, resolveColorValue, oneOf), colorize of index.ts and the *)
(* string builder of vs/editor/common/core/stringBuilder.ts.               *)
(*                                                                         *)
(* Sequences are 1-based here; the source's loop index i = 0 is i = 1.      *)
(***************************************************************************)
EXTENDS Integers, Sequences, FiniteSets, TLC

VARIABLES
    themeName,          \* StandaloneThemeService: the name of the active theme
    call,               \* the adapter call in progress: [op, state, offsetDelta]
    actualResult,       \* what this._actual.tokenize(line, state) returned
    result,             \* what the adapter returned: [tokens, endState]
    colorsById,         \* ColorRegistry.colorsById: { [key: string]: ColorContribution }
    colorSchema,        \* ColorRegistry.colorSchema: { type, properties }
    colorReferenceSchema, \* ColorRegistry.colorReferenceSchema: { type, enum, enumDescriptions }
    listener,           \* a subscriber of onDidChangeSchema: how often it ran, what it saw
    lastCall,           \* the last registry call: [op, id, args, returned, n]
    resolved,           \* a resolution: [op, arg, theme, color, trace]
    host,               \* the global object the bundle runs under: "window" or "worker"
    languageDef,        \* the thenable d a caller holds: [settled, value]
    tokenizers,         \* TokenizationRegistry: languageId -> [status, support]
    setCall,            \* the setMonarchTokensProvider call: [kind, languageId, outcome, alerts]
    colorizing,         \* the colorize call: [status, languageId, lines, done, cancelled, delivered]
    pieces,             \* CompatStringBuilder._pieces, as UTF-16 code units
    appended,           \* what the caller appended since the last reset, in call order
    built,              \* the builder's calls: [ops, last, returned], returned <<>> or <<string>>
    fields,             \* the five fields of one token's metadata
    packed,             \* the 32 bits packed from them, bit 0 first: <<>> or <<bits>>
    unpacked,           \* the fields read back from the bits: <<>> or <<fields>>
    lineInputs,         \* per line: the caller's state and offsetDelta, and what the provider returns
    lineCalls,          \* per line: [op, order, theme, actual, result] of the adapter's call
    modeEvents,         \* modeService.onDidCreateMode: [fired, current, queued, snapshot]
    subscription,       \* one onLanguage call: [languageId, subscribed, disposedBy, calls, trace]
    builtins            \* the built-in color declarations loaded so far: [next, ids]

adapterVars == <<themeName, call, actualResult, result>>

registryVars == <<colorsById, colorSchema, colorReferenceSchema, listener, lastCall>>

resolveVars == <<resolved>>

languageVars == <<host, languageDef, tokenizers, setCall, colorizing>>

builderVars == <<pieces, appended, built>>

metadataVars == <<fields, packed, unpacked>>

lineVars == <<lineInputs, lineCalls>>

eventVars == <<modeEvents, subscription>>

loadVars == <<builtins>>

vars == <<themeName, call, actualResult, result,
          colorsById, colorSchema, colorReferenceSchema, listener, lastCall,
          resolved, host, languageDef, tokenizers, setCall, colorizing,
          pieces, appended, built, fields, packed, unpacked,
          lineInputs, lineCalls, modeEvents, subscription, builtins>>

-----------------------------------------------------------------------------
(* Bounds and input domains                                                *)

\* The longest raw token list a provider returns for one line.
MaxTokens == 3

\* Start indices a (possibly buggy) provider reports: negative, zero,
\* and values that can be out of order.
StartIndices == {-1, 0, 2, 5}

Scopes == {"x", "y"}

\* offsetDelta of tokenize: any number.
ClassicOffsetDeltas == {-2, 0, 3}

\* offsetDelta of tokenize2: an offset into the enclosing line.
BinaryOffsetDeltas == {0, 3}

Max(a, b) == IF a >= b THEN a ELSE b

-----------------------------------------------------------------------------
(* modes.IState objects: an object identity and the value equals() compares *)

StateRefs == {"s1", "s1copy", "s2"}

StateValue(ref) == IF ref = "s2" THEN "in-comment" ELSE "root"

\* IState.equals, the provider's own equality contract.
StateEquals(a, b) == StateValue(a) = StateValue(b)

-----------------------------------------------------------------------------
(* The adapter's collaborators                                             *)

LanguageIdentifier == [language |-> "mylang", id |-> 7]

ThemeNames == {"vs", "vs-dark"}

\* Color ids of the two themes' token rules, per scope: "vs" styles both
\* scopes alike, "vs-dark" styles them differently.
ForegroundOf(theme, scopes) ==
    IF theme = "vs"
    THEN 3
    ELSE (IF scopes = "x" THEN 3 ELSE 5)

\* The themes the theme service knows: the two above and "hc-black", whose
\* token rules carry the background color id 256.
DefinedThemes == ThemeNames \cup {"hc-black"}

BackgroundOf(theme) == IF theme = "hc-black" THEN 256 ELSE 0

\* A background color id moved to bits 23-31, as the 32-bit bit operations
\* give it: from 256 on, bit 31 is set and the number is negative.
BackgroundBits(id) ==
    IF id >= 256 THEN (id - 512) * 8388608 ELSE id * 8388608

\* TokenTheme.match(languageId, scopes): the packed metadata, the language
\* id in bits 0-7, the foreground color id from bit 14 and the background
\* color id from bit 23.
TokenThemeMatch(theme, languageId, scopes) ==
    languageId + ForegroundOf(theme, scopes) * 16384
        + BackgroundBits(BackgroundOf(theme))

\* IToken values this._actual.tokenize may return.
RawTokens == [startIndex : StartIndices, scopes : Scopes]

RawTokenLists == UNION {[1..n -> RawTokens] : n \in 0..MaxTokens}

\* new Token(offset, type, language)
Token(offset, type, language) ==
    [offset |-> offset, type |-> type, language |-> language]

\* Mutation: a negative number is stored as 0, as a clamped array would.
ToUint32Clamped(n) ==
    IF n < 0 THEN [hi |-> 0, lo |-> 0]
    ELSE [hi |-> (n \div 65536) % 65536, lo |-> n % 65536]

\* An element of a Uint32Array holding the number n, as its two 16-bit halves.
ToUint32(n) == [hi |-> (n \div 65536) % 65536, lo |-> n % 65536]

-----------------------------------------------------------------------------
(* TokenizationSupport2Adapter                                             *)

\* Mutation: the clamp against the previous start index is missing.
SanitizeNoClamp(i, startIndex, previousStartIndex) ==
    IF i = 1 THEN 0 ELSE startIndex

\* Mutation: the first token is clamped like the others instead of forced to 0.
SanitizeNoFirstForce(i, startIndex, previousStartIndex) ==
    IF startIndex < previousStartIndex THEN previousStartIndex ELSE startIndex

\* "Prevent issues stemming from a buggy external tokenizer."
SanitizeStartIndex(i, startIndex, previousStartIndex) ==
    IF i = 1
    THEN 0
    ELSE IF startIndex < previousStartIndex
         THEN previousStartIndex
         ELSE startIndex

\* Mutation: previousStartIndex keeps the reported start index, not the
\* corrected one.
RECURSIVE ClassicLoopRawPrevious(_, _, _, _, _, _)
ClassicLoopRawPrevious(tokens, language, offsetDelta, i, previousStartIndex, res) ==
    IF i > Len(tokens)
    THEN res
    ELSE LET t == tokens[i]
             startIndex == IF i = 1 THEN 0
                           ELSE IF t.startIndex < previousStartIndex
                                THEN previousStartIndex
                                ELSE t.startIndex
         IN  ClassicLoopRawPrevious(tokens, language, offsetDelta, i + 1, t.startIndex,
                         Append(res, Token(startIndex + offsetDelta, t.scopes, language)))

RECURSIVE ClassicLoop(_, _, _, _, _, _)
ClassicLoop(tokens, language, offsetDelta, i, previousStartIndex, res) ==
    IF i > Len(tokens)
    THEN res
    ELSE LET t == tokens[i]
             startIndex == SanitizeStartIndex(i, t.startIndex, previousStartIndex)
         IN  ClassicLoop(tokens, language, offsetDelta, i + 1, startIndex,
                         Append(res, Token(startIndex + offsetDelta, t.scopes, language)))

\* Mutation: the result array is a field of the adapter, kept from the
\* previous tokenize call instead of created in each call.
toClassicTokensSharedArray(tokens, language, offsetDelta) ==
    LET made == {l \in DOMAIN lineCalls : lineCalls[l].op = "tokenize"}
        kept == IF made = {} THEN <<>>
                ELSE lineCalls[CHOOSE l \in made : TRUE].result.tokens
    IN  ClassicLoop(tokens, language, offsetDelta, 1, 0, kept)

toClassicTokens(tokens, language, offsetDelta) ==
    ClassicLoop(tokens, language, offsetDelta, 1, 0, <<>>)

\* Mutation: the provider's end state is always handed on.
ReuseStateNever(endState, state) == endState

\* "try to save an object if possible"
ReuseState(endState, state) ==
    IF StateEquals(endState, state) THEN state ELSE endState

\* Mutation: one pair per raw token, no run compression.
SameMetadataNever(res, metadata) == FALSE

\* result[resultLen - 1] === metadata
SameMetadata(res, metadata) ==
    Len(res) > 0 /\ res[Len(res)] = metadata

\* Mutation: every raw token is sanitized before the metadata comparison, so
\* a skipped token still moves previousStartIndex.
RECURSIVE BinaryLoopSanitizeAll(_, _, _, _, _, _, _)
BinaryLoopSanitizeAll(tokens, offsetDelta, languageId, theme, i, previousStartIndex, res) ==
    IF i > Len(tokens)
    THEN res
    ELSE LET t == tokens[i]
             metadata == TokenThemeMatch(theme, languageId, t.scopes)
             startIndex == IF i = 1 THEN 0
                           ELSE IF t.startIndex < previousStartIndex
                                THEN previousStartIndex
                                ELSE t.startIndex
         IN  IF Len(res) > 0 /\ res[Len(res)] = metadata
             THEN BinaryLoopSanitizeAll(tokens, offsetDelta, languageId, theme, i + 1,
                                        startIndex, res)
             ELSE BinaryLoopSanitizeAll(tokens, offsetDelta, languageId, theme, i + 1,
                                        startIndex,
                                        res \o <<startIndex + offsetDelta, metadata>>)

RECURSIVE BinaryLoop(_, _, _, _, _, _, _)
BinaryLoop(tokens, offsetDelta, languageId, theme, i, previousStartIndex, res) ==
    IF i > Len(tokens)
    THEN res
    ELSE LET t == tokens[i]
             metadata == TokenThemeMatch(theme, languageId, t.scopes)
         IN  IF SameMetadata(res, metadata)
             THEN BinaryLoop(tokens, offsetDelta, languageId, theme, i + 1,
                             previousStartIndex, res)
             ELSE LET startIndex ==
                          SanitizeStartIndex(i, t.startIndex, previousStartIndex)
                  IN  BinaryLoop(tokens, offsetDelta, languageId, theme, i + 1,
                                 startIndex,
                                 res \o <<startIndex + offsetDelta, metadata>>)

\* Mutation: the token theme is the one the theme service had when the
\* adapter was constructed, "vs", not the one it has at the call.
toBinaryTokensThemeAtConstruction(tokens, offsetDelta, theme) ==
    LET res == BinaryLoop(tokens, offsetDelta, LanguageIdentifier.id, "vs", 1, 0, <<>>)
    IN  [k \in 1..Len(res) |-> ToUint32(res[k])]

toBinaryTokens(tokens, offsetDelta, theme) ==
    LET res == BinaryLoop(tokens, offsetDelta, LanguageIdentifier.id, theme, 1, 0, <<>>)
    IN  [k \in 1..Len(res) |-> ToUint32(res[k])]

NoResult == [tokens |-> <<>>, endState |-> "none"]

\* tokenize(line, state, offsetDelta)
tokenize(state, offsetDelta) ==
    /\ call.op = "none"
    /\ call.state = state
    /\ \E tokens \in RawTokenLists, endState \in StateRefs :
          /\ actualResult' = [tokens |-> tokens, endState |-> endState]
          /\ result' = [tokens |-> toClassicTokens(tokens, LanguageIdentifier.language,
                                                   offsetDelta),
                        endState |-> ReuseState(endState, state)]
    /\ call' = [op |-> "tokenize", state |-> state, offsetDelta |-> offsetDelta]
    /\ UNCHANGED <<themeName, registryVars, resolveVars, languageVars, builderVars,
                   metadataVars, lineVars, eventVars, loadVars>>

\* tokenize2(line, state, offsetDelta)
tokenize2(state, offsetDelta) ==
    /\ call.op = "none"
    /\ call.state = state
    /\ \E tokens \in RawTokenLists, endState \in StateRefs :
          /\ actualResult' = [tokens |-> tokens, endState |-> endState]
          /\ result' = [tokens |-> toBinaryTokens(tokens, offsetDelta, themeName),
                        endState |-> ReuseState(endState, state)]
    /\ call' = [op |-> "tokenize2", state |-> state, offsetDelta |-> offsetDelta]
    /\ UNCHANGED <<themeName, registryVars, resolveVars, languageVars, builderVars,
                   metadataVars, lineVars, eventVars, loadVars>>

\* Uint32Array values this._actual.tokenizeEncoded may return.
EncodedTokenLists ==
    { <<>>,
      <<ToUint32(0), ToUint32(7 + 3 * 16384)>>,
      <<ToUint32(0), ToUint32(7 + 3 * 16384), ToUint32(4), ToUint32(7 + 5 * 16384)>> }

\* EncodedTokenizationSupport2Adapter.tokenize2(line, state)
encodedTokenize2(state) ==
    /\ call.op = "none"
    /\ call.state = state
    /\ \E tokens \in EncodedTokenLists, endState \in StateRefs :
          /\ actualResult' = [tokens |-> tokens, endState |-> endState]
          /\ result' = [tokens |-> tokens, endState |-> endState]
    /\ call' = [op |-> "encodedTokenize2", state |-> state, offsetDelta |-> 0]
    /\ UNCHANGED <<themeName, registryVars, resolveVars, languageVars, builderVars,
                   metadataVars, lineVars, eventVars, loadVars>>

AdapterNext ==
    \/ \E state \in StateRefs, offsetDelta \in ClassicOffsetDeltas :
          tokenize(state, offsetDelta)
    \/ \E state \in StateRefs, offsetDelta \in BinaryOffsetDeltas :
          tokenize2(state, offsetDelta)
    \/ \E state \in StateRefs : encodedTokenize2(state)

-----------------------------------------------------------------------------
(* Several lines through one TokenizationSupport2Adapter                   *)

\* The independent lines a caller tokenizes with one adapter.
LineIds == {1, 2}

\* What this._actual.tokenize returns for a line: no token, one token, and
\* three tokens out of order whose scopes "vs" styles alike and "vs-dark"
\* does not.
LineTokenLists ==
    { <<>>,
      <<[startIndex |-> 0, scopes |-> "y"]>>,
      <<[startIndex |-> 0, scopes |-> "x"], [startIndex |-> 5, scopes |-> "y"],
        [startIndex |-> 2, scopes |-> "x"]>> }

\* A line's inputs: the state the caller passes, the offsetDelta, and the
\* provider's answer for the line.
LineInputs ==
    [state : {"s1"}, offsetDelta : BinaryOffsetDeltas,
     tokens : LineTokenLists, endState : {"s1copy", "s2"}]

NoLineCall ==
    [op |-> "none", order |-> 0, theme |-> "none", actual |-> NoResult,
     result |-> NoResult]

\* How many of the lines the adapter was called for.
CallsMade == Cardinality({l \in LineIds : lineCalls[l].op # "none"})

\* The call's record: the provider's result object as the call left it, and
\* the TokenizationResult returned.  theme and order are history: the theme
\* active when the call ran and the call's place in the run.
LineCall(op, l, tokens) ==
    [op |-> op, order |-> CallsMade + 1, theme |-> themeName,
     actual |-> [tokens |-> lineInputs[l].tokens, endState |-> lineInputs[l].endState],
     result |-> [tokens |-> tokens,
                 endState |-> ReuseState(lineInputs[l].endState, lineInputs[l].state)]]

\* adapter.tokenize(line, state, offsetDelta) for line l
tokenizeLine(l) ==
    /\ lineCalls[l].op = "none"
    /\ lineCalls' = [lineCalls EXCEPT ![l] =
           LineCall("tokenize", l,
                    toClassicTokens(lineInputs[l].tokens, LanguageIdentifier.language,
                                    lineInputs[l].offsetDelta))]
    /\ UNCHANGED <<lineInputs, adapterVars, registryVars, resolveVars, languageVars,
                   builderVars, metadataVars, eventVars, loadVars>>

\* adapter.tokenize2(line, state, offsetDelta) for line l
tokenize2Line(l) ==
    /\ lineCalls[l].op = "none"
    /\ lineCalls' = [lineCalls EXCEPT ![l] =
           LineCall("tokenize2", l,
                    toBinaryTokens(lineInputs[l].tokens, lineInputs[l].offsetDelta,
                                   themeName))]
    /\ UNCHANGED <<lineInputs, adapterVars, registryVars, resolveVars, languageVars,
                   builderVars, metadataVars, eventVars, loadVars>>

\* setTheme(themeName): the theme service's active theme changes.
setTheme(name) ==
    /\ themeName # name
    /\ themeName' = name
    /\ UNCHANGED <<call, actualResult, result, lineVars, registryVars, resolveVars,
                   languageVars, builderVars, metadataVars, eventVars, loadVars>>

LinesNext ==
    \/ \E l \in LineIds : tokenizeLine(l)
    \/ \E l \in LineIds : tokenize2Line(l)
    \/ \E name \in DefinedThemes : setTheme(name)

-----------------------------------------------------------------------------
(* JavaScript values of the color registry                                 *)

\* The number of registry calls a run makes.
MaxCalls == 5

ColorIds == {"a", "b"}

Undefined == [kind |-> "undefined"]

Null == [kind |-> "null"]

\* A string value, and whether its first character is '#'.
Str(text, hash) == [kind |-> "string", text |-> text, hash |-> hash]

\* A Color object.
Color(hex) == [kind |-> "Color", hex |-> hex]

\* An optional argument: left out, or given.
Omitted == <<>>

Given(v) == <<v>>

\* A parameter default, "needsTransparency = false".
OrDefault(arg, default) == IF arg = Omitted THEN default ELSE arg[1]

\* if (deprecationMessage): undefined and the empty string are falsy.
Truthy(arg) == arg # Omitted /\ arg[1] # ""

\* A plain object as its entries in property order, keys unique.
EmptyObject == <<>>

ObjectKeys(obj) == [k \in 1..Len(obj) |-> obj[k].key]

ObjectHas(obj, key) == \E k \in 1..Len(obj) : obj[k].key = key

ObjectGet(obj, key) ==
    IF ObjectHas(obj, key)
    THEN obj[CHOOSE k \in 1..Len(obj) : obj[k].key = key].value
    ELSE Undefined

\* Mutation: an existing property is not overwritten.
ObjectSetKeepFirst(obj, key, value) ==
    IF ObjectHas(obj, key)
    THEN obj
    ELSE Append(obj, [key |-> key, value |-> value])

\* obj[key] = value
ObjectSet(obj, key, value) ==
    IF ObjectHas(obj, key)
    THEN [k \in 1..Len(obj) |->
             IF obj[k].key = key THEN [key |-> key, value |-> value] ELSE obj[k]]
    ELSE Append(obj, [key |-> key, value |-> value])

RECURSIVE SeqWithout(_, _)
SeqWithout(seq, k) ==
    IF seq = <<>> THEN <<>>
    ELSE IF k = 1 THEN Tail(seq)
    ELSE <<Head(seq)>> \o SeqWithout(Tail(seq), k - 1)

\* delete obj[key]
ObjectDelete(obj, key) ==
    IF ObjectHas(obj, key)
    THEN SeqWithout(obj, CHOOSE k \in 1..Len(obj) : obj[k].key = key)
    ELSE obj

\* array.indexOf(x): the first position of x, 0 (the source's -1) when absent.
IndexOf(seq, x) ==
    IF \E k \in 1..Len(seq) : seq[k] = x
    THEN CHOOSE k \in 1..Len(seq) :
             seq[k] = x /\ \A j \in 1..(k - 1) : seq[j] # x
    ELSE 0

-----------------------------------------------------------------------------
(* Themes and color values                                                 *)

\* What a call that never returns yields: the recursion has no end.
Diverges == [kind |-> "diverges"]

\* A value that is no null, string, Color or function (a number, say).
Other == [kind |-> "other"]

\* oneOf(...colorValues): the ColorFunction it returns.
OneOf(colorValues) == [kind |-> "function", fn |-> "oneOf", values |-> colorValues]

\* A factor or transparency: the number num / den.
Number(num, den) == [num |-> num, den |-> den]

\* factor * transparency
Times(a, b) == Number(a.num * b.num, a.den * b.den)

\* darken(colorValue, factor), lighten(colorValue, factor) and
\* transparent(colorValue, factor): name is the function's.
Derived(name, colorValue, factor) ==
    [kind |-> "function", fn |-> name, values |-> <<colorValue>>, factor |-> factor]

\* lessProminent(colorValue, backgroundColorValue, factor, transparency)
LessProminent(colorValue, backgroundColorValue, factor, transparency) ==
    [kind |-> "function", fn |-> "lessProminent",
     values |-> <<colorValue, backgroundColorValue>>,
     factor |-> factor, transparency |-> transparency]

\* The Color a method of Color returns: the method, the color it was called
\* on and its arguments, not evaluated.
Applied(method, color, args) ==
    [kind |-> "Color", method |-> method, on |-> color, args |-> args]

\* The relative luminance of the literal colors, in percent; a color a
\* method returned stands with the color it was made from.
RECURSIVE Luminance(_)
Luminance(color) ==
    IF "on" \in DOMAIN color THEN Luminance(color.on)
    ELSE CASE color.hex = "#FF0000" -> 21
           [] color.hex = "#0000FF" -> 7
           [] color.hex = "#112233" -> 1
           [] color.hex = "#111111" -> 1
           [] color.hex = "#222222" -> 2
           [] OTHER -> 50

\* from.isDarkerThan(backgroundColor)
IsDarkerThan(from, backgroundColor) == Luminance(from) < Luminance(backgroundColor)

\* ITheme: its type, the colors it defines itself, and whether getColor
\* falls back to the registry default of an id it does not define.
Themes ==
    { [type |-> "dark", colors |-> EmptyObject, useDefault |-> TRUE],
      [type |-> "light", colors |-> EmptyObject, useDefault |-> TRUE],
      [type |-> "hc", colors |-> <<[key |-> "b", value |-> Color("#222222")]>>,
       useDefault |-> TRUE],
      [type |-> "dark", colors |-> <<[key |-> "b", value |-> Color("#111111")]>>,
       useDefault |-> FALSE] }

\* Color.fromHex(hex): #RGB is the short form of #RRGGBB.
ColorFromHex(text) ==
    Color(CASE text = "#F00" -> "#FF0000"
            [] text = "#123" -> "#112233"
            [] OTHER -> text)

\* One call a resolution made, the calls made inside it, and what it returned.
Event(name, arg, inner, returned) ==
    [call |-> name, arg |-> arg, inner |-> inner, returned |-> returned]

\* What a call returns, and the calls it made.
Returned(color, trace) == [color |-> color, trace |-> trace]

\* The nesting of resolveDefaultColor calls after which a resolution is known
\* to visit some id a second time.
StackLimit == Cardinality(ColorIds) + 1

\* Mutation: every string is parsed as a literal.
IsHexLiteralAlways(colorValue) == TRUE

\* colorValue[0] === '#'
IsHexLiteral(colorValue) == colorValue.hash

\* Mutation: any result ends the loop of oneOf.
IsColorAlways(color) == TRUE

\* if (color)
IsColor(color) == color.kind = "Color"

\* Mutation: the dark default, whatever the theme's type.
DefaultForDark(colorDesc, theme) == colorDesc.defaults["dark"]

\* colorDesc.defaults[theme.type]
DefaultFor(colorDesc, theme) == colorDesc.defaults[theme.type]

RECURSIVE ResolveValue(_, _, _, _)
RECURSIVE ResolveDefault(_, _, _, _)
RECURSIVE GetColor(_, _, _, _)
RECURSIVE OneOfLoop(_, _, _, _, _, _)
RECURSIVE CallFunction(_, _, _, _)

\* theme.getColor(id): the theme's own color, else (useDefault) the registry
\* default resolved for this theme.
GetColor(byId, theme, id, fuel) ==
    LET own == ObjectGet(theme.colors, id)
    IN  IF own # Undefined THEN Returned(own, <<>>)
        ELSE IF theme.useDefault THEN ResolveDefault(byId, id, theme, fuel)
        ELSE Returned(Undefined, <<>>)

\* The loop of the function oneOf returns.
OneOfLoop(byId, colorValues, k, theme, fuel, trace) ==
    IF k > Len(colorValues)
    THEN Returned(Undefined, trace)
    ELSE LET r == ResolveValue(byId, colorValues[k], theme, fuel)
             seen == Append(trace, Event("resolveColorValue", colorValues[k], r.trace, r.color))
         IN  IF r.color = Diverges THEN Returned(Diverges, seen)
             ELSE IF IsColor(r.color) THEN Returned(r.color, seen)
             ELSE OneOfLoop(byId, colorValues, k + 1, theme, fuel, seen)

\* Mutation: the method is applied to its own result again.
TransformTwice(fn, color) ==
    Applied(fn.fn, Applied(fn.fn, color, <<fn.factor>>), <<fn.factor>>)

\* color.darken(factor), color.lighten(factor), color.transparent(factor)
Transform(fn, color) == Applied(fn.fn, color, <<fn.factor>>)

\* Mutation: the interpolation is chosen the other way round.
LessProminentSwapped(fn, from, backgroundColor) ==
    IF IsColor(backgroundColor)
    THEN IF IsDarkerThan(from, backgroundColor)
         THEN Applied("transparent",
                      Applied("getDarkerColor", from, <<backgroundColor, fn.factor>>),
                      <<fn.transparency>>)
         ELSE Applied("transparent",
                      Applied("getLighterColor", from, <<backgroundColor, fn.factor>>),
                      <<fn.transparency>>)
    ELSE Applied("transparent", from, <<Times(fn.factor, fn.transparency)>>)

\* What lessProminent returns once from is resolved: backgroundColor is the
\* resolution of the background value.
LessProminentOf(fn, from, backgroundColor) ==
    IF IsColor(backgroundColor)
    THEN IF IsDarkerThan(from, backgroundColor)
         THEN Applied("transparent",
                      Applied("getLighterColor", from, <<backgroundColor, fn.factor>>),
                      <<fn.transparency>>)
         ELSE Applied("transparent",
                      Applied("getDarkerColor", from, <<backgroundColor, fn.factor>>),
                      <<fn.transparency>>)
    ELSE Applied("transparent", from, <<Times(fn.factor, fn.transparency)>>)

\* colorValue(theme) for the functions darken, lighten, transparent, oneOf
\* and lessProminent return.
CallFunction(byId, fn, theme, fuel) ==
    IF fn.fn = "oneOf"
    THEN OneOfLoop(byId, fn.values, 1, theme, fuel, <<>>)
    ELSE LET r == ResolveValue(byId, fn.values[1], theme, fuel)
             first == <<Event("resolveColorValue", fn.values[1], r.trace, r.color)>>
         IN  IF r.color = Diverges THEN Returned(Diverges, first)
             ELSE IF ~IsColor(r.color) THEN Returned(Undefined, first)
             ELSE IF fn.fn = "lessProminent"
                  THEN LET b == ResolveValue(byId, fn.values[2], theme, fuel)
                           both == Append(first, Event("resolveColorValue", fn.values[2],
                                                       b.trace, b.color))
                       IN  IF b.color = Diverges THEN Returned(Diverges, both)
                           ELSE Returned(LessProminentOf(fn, r.color, b.color), both)
             ELSE Returned(Transform(fn, r.color), first)

\* Mutation: a reference is looked up in the registry by the resolver itself
\* when the theme does not know it.
ResolveValueRegistryToo(byId, colorValue, theme, fuel) ==
    IF colorValue = Null THEN Returned(Undefined, <<>>)
    ELSE IF colorValue.kind = "string"
         THEN IF colorValue.hash
              THEN Returned(ColorFromHex(colorValue.text),
                            <<Event("Color.fromHex", colorValue, <<>>, ColorFromHex(colorValue.text))>>)
              ELSE LET r == GetColor(byId, theme, colorValue.text, fuel)
                       d == ResolveDefault(byId, colorValue.text, theme, fuel)
                   IN  IF r.color # Undefined
                       THEN Returned(r.color,
                                     <<Event("theme.getColor", colorValue, r.trace, r.color)>>)
                       ELSE Returned(d.color,
                                     <<Event("theme.getColor", colorValue, r.trace, r.color),
                                       Event("resolveDefaultColor", colorValue, d.trace, d.color)>>)
    ELSE IF colorValue.kind = "Color" THEN Returned(colorValue, <<>>)
    ELSE IF colorValue.kind = "function"
         THEN LET r == CallFunction(byId, colorValue, theme, fuel)
              IN  Returned(r.color, <<Event("colorValue(theme)", colorValue, r.trace, r.color)>>)
    ELSE Returned(Undefined, <<>>)

\* resolveColorValue(colorValue, theme) against the contributions byId.
ResolveValue(byId, colorValue, theme, fuel) ==
    IF colorValue = Null THEN Returned(Undefined, <<>>)
    ELSE IF colorValue.kind = "string"
         THEN IF IsHexLiteral(colorValue)
              THEN Returned(ColorFromHex(colorValue.text),
                            <<Event("Color.fromHex", colorValue, <<>>, ColorFromHex(colorValue.text))>>)
              ELSE LET r == GetColor(byId, theme, colorValue.text, fuel)
                   IN  Returned(r.color,
                                <<Event("theme.getColor", colorValue, r.trace, r.color)>>)
    ELSE IF colorValue.kind = "Color" THEN Returned(colorValue, <<>>)
    ELSE IF colorValue.kind = "function"
         THEN LET r == CallFunction(byId, colorValue, theme, fuel)
              IN  Returned(r.color, <<Event("colorValue(theme)", colorValue, r.trace, r.color)>>)
    ELSE Returned(Undefined, <<>>)

\* Mutation: a contribution seen before on this path resolves to no color.
ResolveDefaultGuarded(byId, id, theme, fuel) ==
    LET colorDesc == ObjectGet(byId, id)
    IN  IF fuel = 0 THEN Returned(Undefined, <<>>)
        ELSE IF colorDesc # Undefined /\ colorDesc.defaults # Null
        THEN LET r == ResolveValue(byId, colorDesc.defaults[theme.type], theme, fuel - 1)
             IN  Returned(r.color,
                          <<Event("resolveDefaultColor", Str(id, FALSE), r.trace, r.color)>>)
        ELSE Returned(Undefined, <<Event("resolveDefaultColor", Str(id, FALSE), <<>>, Undefined)>>)

\* resolveDefaultColor(id, theme) against the contributions byId. A nesting
\* of more than StackLimit of these calls repeats an id and so never returns.
ResolveDefault(byId, id, theme, fuel) ==
    LET colorDesc == ObjectGet(byId, id)
    IN  IF fuel = 0 THEN Returned(Diverges, <<>>)
        ELSE IF colorDesc # Undefined /\ colorDesc.defaults # Null
        THEN LET r == ResolveValue(byId, DefaultFor(colorDesc, theme), theme, fuel - 1)
             IN  Returned(r.color,
                          <<Event("resolveDefaultColor", Str(id, FALSE), r.trace, r.color)>>)
        ELSE Returned(Undefined, <<Event("resolveDefaultColor", Str(id, FALSE), <<>>, Undefined)>>)

\* theme.getColor(id)
ThemeGetColor(theme, id) == GetColor(colorsById, theme, id, StackLimit).color

\* resolveColorValue(colorValue, theme)
resolveColorValue(colorValue, theme) ==
    ResolveValue(colorsById, colorValue, theme, StackLimit).color

\* ColorDefaults values the callers register.
DefaultsOne ==
    [kind |-> "defaults",
     dark |-> Str("#FF0000", TRUE), light |-> Str("b", FALSE), hc |-> Null]

DefaultsTwo ==
    [kind |-> "defaults",
     dark |-> Str("a", FALSE), light |-> Str("a", FALSE),
     hc |-> OneOf(<<Str("a", FALSE), Color("#0000FF")>>)]

\* The argument lists of registerColor after id:
\* defaults, description, needsTransparency?, deprecationMessage?
RegisterArgs ==
    { [defaults |-> DefaultsOne, description |-> "first",
       needsTransparency |-> Omitted, deprecationMessage |-> Omitted],
      [defaults |-> DefaultsTwo, description |-> "second",
       needsTransparency |-> Given(TRUE), deprecationMessage |-> Given("old")],
      [defaults |-> Null, description |-> "first",
       needsTransparency |-> Given(FALSE), deprecationMessage |-> Given("")] }

NoArgs ==
    [defaults |-> Null, description |-> "",
     needsTransparency |-> Omitted, deprecationMessage |-> Omitted]

-----------------------------------------------------------------------------
(* ColorRegistry                                                           *)

\* The three fields of the registry as one value.
Registry(byId, schema, referenceSchema) ==
    [colorsById |-> byId, colorSchema |-> schema,
     colorReferenceSchema |-> referenceSchema]

CurrentRegistry == Registry(colorsById, colorSchema, colorReferenceSchema)

\* The property schema registerColor builds.
PropertySchema(description, deprecationMessage) ==
    [type |-> "string", description |-> description, format |-> "color-hex",
     default |-> "#ff0000",
     deprecationMessage |-> IF Truthy(deprecationMessage)
                            THEN deprecationMessage ELSE Omitted]

\* Mutation: the event is fired before the schemas are updated.
RegisterColorFireEarly(reg, id, args) ==
    LET colorContribution ==
            [id |-> id, description |-> args.description, defaults |-> args.defaults,
             needsTransparency |-> OrDefault(args.needsTransparency, FALSE),
             deprecationMessage |-> args.deprecationMessage]
        byId == ObjectSet(reg.colorsById, id, colorContribution)
        schema == [type |-> "object",
                   properties |-> ObjectSet(reg.colorSchema.properties, id,
                       PropertySchema(args.description, args.deprecationMessage))]
        referenceSchema ==
            [type |-> "string",
             enum |-> Append(reg.colorReferenceSchema.enum, id),
             enumDescriptions |->
                 Append(reg.colorReferenceSchema.enumDescriptions, args.description)]
    IN  [registry |-> Registry(byId, schema, referenceSchema),
         fired |-> <<Registry(byId, reg.colorSchema, reg.colorReferenceSchema)>>,
         returned |-> Given(id)]

\* registerColor(id, defaults, description, needsTransparency, deprecationMessage):
\* the registry it leaves, the registry each fire() shows the listeners, and
\* its return value.
RegisterColorEffect(reg, id, args) ==
    LET colorContribution ==
            [id |-> id, description |-> args.description, defaults |-> args.defaults,
             needsTransparency |-> OrDefault(args.needsTransparency, FALSE),
             deprecationMessage |-> args.deprecationMessage]
        byId == ObjectSet(reg.colorsById, id, colorContribution)
        schema == [type |-> "object",
                   properties |-> ObjectSet(reg.colorSchema.properties, id,
                       PropertySchema(args.description, args.deprecationMessage))]
        referenceSchema ==
            [type |-> "string",
             enum |-> Append(reg.colorReferenceSchema.enum, id),
             enumDescriptions |->
                 Append(reg.colorReferenceSchema.enumDescriptions, args.description)]
        after == Registry(byId, schema, referenceSchema)
    IN  [registry |-> after, fired |-> <<after>>, returned |-> Given(id)]

\* deregisterColor(id)
DeregisterColorEffect(reg, id) ==
    LET byId == ObjectDelete(reg.colorsById, id)
        schema == [type |-> "object",
                   properties |-> ObjectDelete(reg.colorSchema.properties, id)]
        index == IndexOf(reg.colorReferenceSchema.enum, id)
        referenceSchema ==
            IF index # 0
            THEN [type |-> "string",
                  enum |-> SeqWithout(reg.colorReferenceSchema.enum, index),
                  enumDescriptions |->
                      SeqWithout(reg.colorReferenceSchema.enumDescriptions, index)]
            ELSE reg.colorReferenceSchema
        after == Registry(byId, schema, referenceSchema)
    IN  [registry |-> after, fired |-> <<after>>, returned |-> Omitted]

\* The listeners of onDidChangeSchema run inside fire().
Notify(l, fired) ==
    [fired |-> l.fired + Len(fired),
     seen |-> IF fired = <<>> THEN l.seen ELSE fired[Len(fired)]]

\* getColors()
getColors == [k \in 1..Len(colorsById) |-> colorsById[k].value]

\* resolveDefaultColor(id, theme)
resolveDefaultColor(id, theme) ==
    ResolveDefault(colorsById, id, theme, StackLimit).color

Apply(effect, op, id, args) ==
    /\ colorsById' = effect.registry.colorsById
    /\ colorSchema' = effect.registry.colorSchema
    /\ colorReferenceSchema' = effect.registry.colorReferenceSchema
    /\ listener' = Notify(listener, effect.fired)
    /\ lastCall' = [op |-> op, id |-> id, args |-> args,
                    returned |-> effect.returned, n |-> lastCall.n + 1]
    /\ UNCHANGED <<adapterVars, resolveVars, languageVars, builderVars, metadataVars, lineVars, eventVars, loadVars>>

registerColor(id, args) ==
    /\ lastCall.n < MaxCalls
    /\ Apply(RegisterColorEffect(CurrentRegistry, id, args), "registerColor", id, args)

deregisterColor(id) ==
    /\ lastCall.n < MaxCalls
    /\ Apply(DeregisterColorEffect(CurrentRegistry, id), "deregisterColor", id, NoArgs)

RegistryNext ==
    \/ \E id \in ColorIds, args \in RegisterArgs : registerColor(id, args)
    \/ \E id \in ColorIds : deregisterColor(id)

-----------------------------------------------------------------------------
(* Resolving a color for a theme                                           *)

\* The longest argument list of oneOf a caller passes.
MaxOneOf == 2

\* Color values a caller resolves directly or passes to oneOf.
BasicValues ==
    { Null, Undefined, Other,
      Str("#112233", TRUE), Str("#F00", TRUE),
      Str("a", FALSE), Str("b", FALSE),
      Color("#0000FF") }

\* The derived colors a caller resolves: a factor of 0.2, and the factor
\* 0.3 and transparency 0.6 of the built-in lessProminent default.
DerivedValues ==
    { Derived(name, colorValue, Number(2, 10)) :
        name \in {"darken", "lighten", "transparent"}, colorValue \in BasicValues }
    \cup
    { LessProminent(colorValue, backgroundColorValue, Number(3, 10), Number(6, 10)) :
        colorValue \in BasicValues, backgroundColorValue \in BasicValues }

ColorValues ==
    BasicValues \cup DerivedValues \cup
    { OneOf(colorValues) :
        colorValues \in UNION { [1..n -> BasicValues] : n \in 0..MaxOneOf } }

\* Ids a caller asks the registry to resolve: "c" is never registered.
ResolveIds == ColorIds \cup {"c"}

NoResolution ==
    [op |-> "none", arg |-> Undefined, color |-> Undefined, trace |-> <<>>]

\* A caller invokes resolveDefaultColor(id, theme) with the theme in use.
callResolveDefaultColor(id) ==
    /\ resolved.op = "none"
    /\ resolved' =
         [resolved EXCEPT
            !.op = "resolveDefaultColor",
            !.arg = Str(id, FALSE),
            !.color = resolveDefaultColor(id, resolved.theme),
            !.trace = ResolveDefault(colorsById, id, resolved.theme, StackLimit).trace]
    /\ UNCHANGED <<adapterVars, registryVars, languageVars, builderVars, metadataVars, lineVars, eventVars, loadVars>>

\* A caller invokes resolveColorValue(colorValue, theme) with the theme in use.
callResolveColorValue(colorValue) ==
    /\ resolved.op = "none"
    /\ resolved' =
         [resolved EXCEPT
            !.op = "resolveColorValue",
            !.arg = colorValue,
            !.color = resolveColorValue(colorValue, resolved.theme),
            !.trace = ResolveValue(colorsById, colorValue, resolved.theme,
                                   StackLimit).trace]
    /\ UNCHANGED <<adapterVars, registryVars, languageVars, builderVars, metadataVars, lineVars, eventVars, loadVars>>

ResolveNext ==
    \/ \E id \in ResolveIds : callResolveDefaultColor(id)
    \/ \E colorValue \in ColorValues : callResolveColorValue(colorValue)

-----------------------------------------------------------------------------
(* Tokens providers and colorize                                           *)

\* The most lines a text passed to colorize has.
MaxLines == 2

LanguageIds == {"mylang", "plain"}

\* IMonarchLanguage values.
MonarchDefs == {"def1", "def2"}

\* The languageDef argument: a definition, or the thenable d of languageDef.
Immediate(def) == [kind |-> "immediate", value |-> def]

Thenable == [kind |-> "thenable", value |-> ""]

LanguageDefArgs == { Immediate(def) : def \in MonarchDefs } \cup {Thenable}

\* isThenable(obj)
isThenable(obj) == obj.kind = "thenable"

\* create(languageDef): the tokenization support of languageId compiled
\* from the definition.
create(languageId, def) == [languageId |-> languageId, def |-> def]

NoSupport == [languageId |-> "", def |-> ""]

\* alert(): bound in a window, an unbound identifier in a worker.
HostHasAlert == host = "window"

\* TokenizationRegistry.register(languageId, support)
Register(registry, languageId, support) ==
    [registry EXCEPT ![languageId] = [status |-> "installed", support |-> support]]

\* TokenizationRegistry.registerPromise(languageId, promise): nothing is
\* installed until the promise resolves.
RegisterPromise(registry, languageId) ==
    [registry EXCEPT ![languageId] = [status |-> "pending", support |-> NoSupport]]

NoSetCall == [kind |-> "none", languageId |-> "", outcome |-> "none", alerts |-> 0]

\* setMonarchTokensProvider(languageId, languageDef)
setMonarchTokensProvider(languageId, d) ==
    /\ setCall.outcome = "none"
    /\ IF isThenable(d)
       THEN IF HostHasAlert
            THEN /\ tokenizers' = RegisterPromise(tokenizers, languageId)
                 /\ setCall' = [kind |-> d.kind, languageId |-> languageId,
                                outcome |-> "returned", alerts |-> 1]
            ELSE /\ tokenizers' = tokenizers
                 /\ setCall' = [kind |-> d.kind, languageId |-> languageId,
                                outcome |-> "ReferenceError", alerts |-> 0]
       ELSE /\ tokenizers' = Register(tokenizers, languageId, create(languageId, d.value))
            /\ setCall' = [kind |-> d.kind, languageId |-> languageId,
                           outcome |-> "returned", alerts |-> 0]
    /\ UNCHANGED <<host, languageDef, colorizing>>
    /\ UNCHANGED <<adapterVars, registryVars, resolveVars, builderVars, metadataVars, lineVars, eventVars, loadVars>>

\* The thenable d resolves to a definition.
resolveLanguageDef(def) ==
    /\ ~languageDef.settled
    /\ languageDef' = [settled |-> TRUE, value |-> def]
    /\ UNCHANGED <<host, tokenizers, setCall, colorizing>>
    /\ UNCHANGED <<adapterVars, registryVars, resolveVars, builderVars, metadataVars, lineVars, eventVars, loadVars>>

\* languageDef.then(languageDef => create(languageDef)), and the registry's
\* continuation on it: the support is installed.
thenCreate ==
    /\ languageDef.settled
    /\ setCall.kind = "thenable"
    /\ setCall.outcome = "returned"
    /\ tokenizers[setCall.languageId].status = "pending"
    /\ tokenizers' = Register(tokenizers, setCall.languageId,
                              create(setCall.languageId, languageDef.value))
    /\ UNCHANGED <<host, languageDef, setCall, colorizing>>
    /\ UNCHANGED <<adapterVars, registryVars, resolveVars, builderVars, metadataVars, lineVars, eventVars, loadVars>>

\* How a colorize promise settles: an outcome and the lines of output.
Settlement(outcome, output) == [outcome |-> outcome, output |-> output]

NotSettled == Settlement("none", 0)

\* Mutation: a failure becomes an empty string.
ColorizeCatchAll(settlement) ==
    IF settlement.outcome \in {"no provider", "cancelled"}
    THEN Settlement("ok", 0)
    ELSE settlement

\* Mutation: a cancellation becomes the output so far.
ColorizeCatchCancelled(settlement) ==
    IF settlement.outcome = "cancelled"
    THEN Settlement("ok", colorizing.done)
    ELSE settlement

\* colorize(text, languageId, options) of index.ts: what the caller's promise
\* settles with, given the Colorizer's.
colorizePromise(settlement) == settlement

NoColorize ==
    [status |-> "idle", languageId |-> "", found |-> "none", lines |-> 0, done |-> 0,
     cancelled |-> FALSE, delivered |-> NotSettled]

\* colorize(text, languageId, options): the Colorizer looks the tokenizer
\* up; without one it fails at once.
colorize(languageId, lines) ==
    /\ colorizing.status = "idle"
    /\ LET found == tokenizers[languageId].status
       IN  colorizing' =
             [colorizing EXCEPT
                !.languageId = languageId,
                !.found = found,
                !.lines = lines,
                !.status = CASE found = "none" -> "settled"
                             [] found = "pending" -> "waiting"
                             [] found = "installed" -> "running",
                !.delivered = IF found = "none"
                              THEN colorizePromise(Settlement("no provider", 0))
                              ELSE NotSettled]
    /\ UNCHANGED <<host, languageDef, tokenizers, setCall>>
    /\ UNCHANGED <<adapterVars, registryVars, resolveVars, builderVars, metadataVars, lineVars, eventVars, loadVars>>

\* The pending tokenizer arrived: the colorize waiting for it goes on.
colorizeResume ==
    /\ colorizing.status = "waiting"
    /\ tokenizers[colorizing.languageId].status = "installed"
    /\ colorizing' = [colorizing EXCEPT !.status = "running"]
    /\ UNCHANGED <<host, languageDef, tokenizers, setCall>>
    /\ UNCHANGED <<adapterVars, registryVars, resolveVars, builderVars, metadataVars, lineVars, eventVars, loadVars>>

\* The bounded wait for a pending tokenizer ran out.
colorizeGiveUp ==
    /\ colorizing.status = "waiting"
    /\ tokenizers[colorizing.languageId].status = "pending"
    /\ colorizing' =
         [colorizing EXCEPT
            !.status = "settled",
            !.delivered = IF colorizing.cancelled
                          THEN colorizePromise(Settlement("cancelled", 0))
                          ELSE colorizePromise(Settlement("no provider", 0))]
    /\ UNCHANGED <<host, languageDef, tokenizers, setCall>>
    /\ UNCHANGED <<adapterVars, registryVars, resolveVars, builderVars, metadataVars, lineVars, eventVars, loadVars>>

\* Between two lines: the cancellation is looked at, then either the
\* operation fails or the next line is tokenized whole.
colorizeLine ==
    /\ colorizing.status = "running"
    /\ colorizing.done < colorizing.lines
    /\ colorizing' =
         IF colorizing.cancelled
         THEN [colorizing EXCEPT
                 !.status = "settled",
                 !.delivered = colorizePromise(Settlement("cancelled", 0))]
         ELSE [colorizing EXCEPT !.done = colorizing.done + 1]
    /\ UNCHANGED <<host, languageDef, tokenizers, setCall>>
    /\ UNCHANGED <<adapterVars, registryVars, resolveVars, builderVars, metadataVars, lineVars, eventVars, loadVars>>

\* After the last line: the output of all lines is delivered, unless the
\* operation was cancelled.
colorizeDone ==
    /\ colorizing.status = "running"
    /\ colorizing.done = colorizing.lines
    /\ colorizing' =
         [colorizing EXCEPT
            !.status = "settled",
            !.delivered = IF colorizing.cancelled
                          THEN colorizePromise(Settlement("cancelled", 0))
                          ELSE colorizePromise(Settlement("ok", colorizing.done))]
    /\ UNCHANGED <<host, languageDef, tokenizers, setCall>>
    /\ UNCHANGED <<adapterVars, registryVars, resolveVars, builderVars, metadataVars, lineVars, eventVars, loadVars>>

\* The caller cancels the operation in flight.
colorizeCancel ==
    /\ colorizing.status \in {"waiting", "running"}
    /\ ~colorizing.cancelled
    /\ colorizing' = [colorizing EXCEPT !.cancelled = TRUE]
    /\ UNCHANGED <<host, languageDef, tokenizers, setCall>>
    /\ UNCHANGED <<adapterVars, registryVars, resolveVars, builderVars, metadataVars, lineVars, eventVars, loadVars>>

LanguagesNext ==
    \/ \E languageId \in LanguageIds, d \in LanguageDefArgs :
          setMonarchTokensProvider(languageId, d)
    \/ \E def \in MonarchDefs : resolveLanguageDef(def)
    \/ thenCreate
    \/ \E languageId \in LanguageIds, lines \in 0..MaxLines : colorize(languageId, lines)
    \/ colorizeResume
    \/ colorizeGiveUp
    \/ colorizeLine
    \/ colorizeDone
    \/ colorizeCancel

-----------------------------------------------------------------------------
(* onLanguage(languageId, callback)                                        *)

\* The mode-creation events a run fires.
MaxEvents == 3

NoSubscription ==
    [languageId |-> "none", subscribed |-> FALSE, disposedBy |-> "none",
     calls |-> 0, trace |-> <<>>]

\* What the listener did, in order: it disposed its subscription, it invoked
\* the callback.  disposedBefore and disposedAtFire are history: who had
\* disposed the returned disposable when the listener was entered, and when
\* the event was fired.
ListenerStep(step, sub, subscribed) ==
    [step |-> step, event |-> Len(modeEvents.fired), mode |-> modeEvents.current,
     subscribed |-> subscribed, disposedBefore |-> sub.disposedBy,
     disposedAtFire |-> modeEvents.disposedAtFire]

\* Mutation: the listener does not stop listening.
ListenerNoDispose(sub, modeId) ==
    IF modeId = sub.languageId
    THEN [sub EXCEPT !.calls = @ + 1,
                     !.trace = Append(@, ListenerStep("callback", sub, sub.subscribed))]
    ELSE sub

\* mode => { if (mode.getId() === languageId) { disposable.dispose(); callback(); } }
Listener(sub, modeId) ==
    IF modeId = sub.languageId
    THEN [sub EXCEPT !.subscribed = FALSE,
                     !.disposedBy = IF @ = "none" THEN "listener" ELSE @,
                     !.calls = @ + 1,
                     !.trace = @ \o <<ListenerStep("dispose", sub, sub.subscribed),
                                      ListenerStep("callback", sub, FALSE)>>]
    ELSE sub

\* onLanguage(languageId, callback): subscribes the listener and returns its
\* disposable.  An event being delivered does not reach the new listener.
onLanguage(languageId) ==
    /\ subscription = NoSubscription
    /\ subscription' = [subscription EXCEPT !.languageId = languageId,
                                            !.subscribed = TRUE]
    /\ UNCHANGED <<modeEvents, adapterVars, registryVars, resolveVars, languageVars,
                   builderVars, metadataVars, lineVars, loadVars>>

\* The mode service creates a mode and fires onDidCreateMode: the emitter
\* takes the listeners subscribed now.
createMode(modeId) ==
    /\ modeEvents.current = "none"
    /\ Len(modeEvents.fired) < MaxEvents
    /\ modeEvents' = [modeEvents EXCEPT !.fired = Append(@, modeId),
                                        !.current = modeId,
                                        !.queued = subscription.subscribed,
                                        !.disposedAtFire = subscription.disposedBy]
    /\ UNCHANGED <<subscription, adapterVars, registryVars, resolveVars, languageVars,
                   builderVars, metadataVars, lineVars, loadVars>>

\* The caller, or another listener of the event being delivered, disposes
\* the disposable onLanguage returned.
disposeReturned ==
    /\ subscription.languageId # "none"
    /\ subscription.disposedBy = "none"
    /\ subscription' = [subscription EXCEPT !.subscribed = FALSE,
                                            !.disposedBy = "caller"]
    /\ UNCHANGED <<modeEvents, adapterVars, registryVars, resolveVars, languageVars,
                   builderVars, metadataVars, lineVars, loadVars>>

\* The emitter reaches the listener of onLanguage.  A listener taken at the
\* fire and disposed since is still called by an emitter that delivers to
\* the listeners it took (snapshot), and skipped by one that looks again.
deliver ==
    /\ modeEvents.current # "none"
    /\ subscription' =
           IF modeEvents.queued /\ (modeEvents.snapshot \/ subscription.subscribed)
           THEN Listener(subscription, modeEvents.current)
           ELSE subscription
    /\ modeEvents' = [modeEvents EXCEPT !.current = "none", !.queued = FALSE]
    /\ UNCHANGED <<adapterVars, registryVars, resolveVars, languageVars,
                   builderVars, metadataVars, lineVars, loadVars>>

OnLanguageNext ==
    \/ \E languageId \in LanguageIds : onLanguage(languageId)
    \/ \E modeId \in LanguageIds : createMode(modeId)
    \/ disposeReturned
    \/ deliver

-----------------------------------------------------------------------------
(* CompatStringBuilder                                                     *)

\* The most calls made on one builder.
MaxOps == 5

\* Char codes a caller writes: one of them is beyond 16 bits.
CharCodes == {65, 65601}

\* Strings a caller appends, as UTF-16 code units.
AsciiStrings == {<<>>, <<104, 105>>}

\* Mutation: a char code beyond 16 bits becomes a surrogate pair.
FromCodePoint(charCode) ==
    IF charCode > 65535
    THEN <<55296 + ((charCode - 65536) \div 1024), 56320 + (charCode % 1024)>>
    ELSE <<charCode>>

\* String.fromCharCode(charCode): one code unit, the char code's low 16 bits.
FromCharCode(charCode) == <<charCode % 65536>>

\* One call on the builder: it leaves the string next and returns what
\* build() returned, if that was the call.
Called(op, arg, next, returned) ==
    /\ built.ops < MaxOps
    /\ pieces' = next
    /\ appended' = CASE op = "reset" -> <<>>
                     [] op = "build" -> appended
                     [] OTHER -> Append(appended, [op |-> op, arg |-> arg])
    /\ built' = [ops |-> built.ops + 1, last |-> op, returned |-> returned]
    /\ UNCHANGED <<adapterVars, registryVars, resolveVars, languageVars, metadataVars, lineVars, eventVars, loadVars>>

\* reset()
reset == Called("reset", <<>>, <<>>, <<>>)

\* build()
build == Called("build", <<>>, pieces, <<pieces>>)

\* write1(charCode)
write1(charCode) ==
    Called("write1", <<charCode>>, pieces \o FromCharCode(charCode), <<>>)

\* appendASCII(charCode): this.write1(charCode)
appendASCII(charCode) ==
    Called("appendASCII", <<charCode>>, pieces \o FromCharCode(charCode), <<>>)

\* appendASCIIString(str)
appendASCIIString(str) == Called("appendASCIIString", str, pieces \o str, <<>>)

BuilderNext ==
    \/ reset
    \/ build
    \/ \E charCode \in CharCodes : write1(charCode)
    \/ \E charCode \in CharCodes : appendASCII(charCode)
    \/ \E str \in AsciiStrings : appendASCIIString(str)

-----------------------------------------------------------------------------
(* The metadata word of IEncodedLineTokens                                 *)

\* Mutation: the font style takes a bit of the foreground.
MetadataLayoutWideFont ==
    << "b", "b", "b", "b",  "b", "b", "b", "b",  "b", "f", "f", "f",  "f", "f", "f", "f",
       "f", "F", "F", "F",  "F", "T", "T", "T",  "L", "L", "L", "L",  "L", "L", "L", "L" >>

\* The layout as the source draws it, bit 31 first:
\*     bbbb bbbb bfff ffff ffFF FTTT LLLL LLLL
MetadataLayout ==
    << "b", "b", "b", "b",  "b", "b", "b", "b",  "b", "f", "f", "f",  "f", "f", "f", "f",
       "f", "f", "F", "F",  "F", "T", "T", "T",  "L", "L", "L", "L",  "L", "L", "L", "L" >>

\* The letter of each field in the layout.
FieldLetters ==
    [languageId |-> "L", tokenType |-> "T", fontStyle |-> "F",
     foreground |-> "f", background |-> "b"]

FieldNames == DOMAIN FieldLetters

\* The bits, 0 the least significant, that the layout gives a letter.
BitsOf(letter) ==
    { bit \in 0..(Len(MetadataLayout) - 1) :
        MetadataLayout[Len(MetadataLayout) - bit] = letter }

\* The lowest bit of a field.
OffsetOf(name) ==
    CHOOSE bit \in BitsOf(FieldLetters[name]) :
        \A other \in BitsOf(FieldLetters[name]) : bit <= other

\* The field a bit belongs to.
FieldAt(bit) == CHOOSE name \in FieldNames : bit \in BitsOf(FieldLetters[name])

\* Values of the fields: EncodedLanguageId, StandardTokenType, FontStyle
\* (flags, combinable), and the two color ids.
FieldValues ==
    [languageId : {0, 7, 255},
     tokenType : {0, 1, 2, 4},
     fontStyle : {0, 1, 2, 4, 7},
     foreground : {0, 1, 511},
     background : {0, 2, 511}]

\* The metadata word of the fields, as its bits from bit 0 on: each field
\* shifted to its offset.
Pack(values) ==
    [k \in 1..Len(MetadataLayout) |->
        LET name == FieldAt(k - 1)
        IN  (values[name] \div (2 ^ (k - 1 - OffsetOf(name)))) % 2]

\* The value of the bits of one field, its lowest bit counting 1.
RECURSIVE FieldValue(_, _, _)
FieldValue(bits, name, from) ==
    IF from \notin BitsOf(FieldLetters[name]) THEN 0
    ELSE bits[from + 1] + 2 * FieldValue(bits, name, from + 1)

\* The fields read back from a metadata word.
Unpack(bits) == [name \in FieldNames |-> FieldValue(bits, name, OffsetOf(name))]

\* The fields of a token are packed into its metadata word.
pack ==
    /\ packed = <<>>
    /\ packed' = <<Pack(fields)>>
    /\ UNCHANGED <<fields, unpacked>>
    /\ UNCHANGED <<adapterVars, registryVars, resolveVars, languageVars, builderVars,
                   lineVars, eventVars, loadVars>>

\* A consumer reads the fields back from the word.
unpack ==
    /\ packed # <<>>
    /\ unpacked = <<>>
    /\ unpacked' = <<Unpack(packed[1])>>
    /\ UNCHANGED <<fields, packed>>
    /\ UNCHANGED <<adapterVars, registryVars, resolveVars, languageVars, builderVars,
                   lineVars, eventVars, loadVars>>

MetadataNext == pack \/ unpack

-----------------------------------------------------------------------------
(* Specifications                                                          *)

\* new ColorRegistry(): empty map, empty schemas, nothing fired yet.
NewRegistry ==
    Registry(EmptyObject,
             [type |-> "object", properties |-> EmptyObject],
             [type |-> "string", enum |-> <<>>, enumDescriptions |-> <<>>])

NoCall ==
    [op |-> "none", id |-> "", args |-> NoArgs, returned |-> Omitted, n |-> 0]

\* The registry, its listener and its last call after the registerColor
\* calls of a module's load, starting from a new registry.
RECURSIVE AfterRegistrations(_)
AfterRegistrations(calls) ==
    IF calls = <<>>
    THEN [registry |-> NewRegistry,
          listener |-> [fired |-> 0, seen |-> NewRegistry],
          lastCall |-> NoCall]
    ELSE LET n == Len(calls)
             before == AfterRegistrations(SubSeq(calls, 1, n - 1))
             effect == RegisterColorEffect(before.registry, calls[n].id, calls[n].args)
         IN  [registry |-> effect.registry,
              listener |-> Notify(before.listener, effect.fired),
              lastCall |-> [op |-> "registerColor", id |-> calls[n].id,
                            args |-> calls[n].args, returned |-> effect.returned,
                            n |-> n]]

\* The registerColor calls made while the modules load.
Registrations ==
    UNION { [1..n -> [id : ColorIds, args : RegisterArgs]] :
              n \in 0..Cardinality(ColorIds) }

\* The adapter about to tokenize one line: the caller holds a state.
AdapterIdle ==
    /\ call \in [op : {"none"}, state : StateRefs, offsetDelta : {0}]
    /\ actualResult = NoResult
    /\ result = NoResult

\* The adapter with nothing to do.
AdapterUnused ==
    /\ call = [op |-> "none", state |-> "s1", offsetDelta |-> 0]
    /\ actualResult = NoResult
    /\ result = NoResult

RegistryEmpty ==
    /\ colorsById = NewRegistry.colorsById
    /\ colorSchema = NewRegistry.colorSchema
    /\ colorReferenceSchema = NewRegistry.colorReferenceSchema
    /\ listener = [fired |-> 0, seen |-> NewRegistry]
    /\ lastCall = NoCall

RegistryLoaded ==
    \E calls \in Registrations :
        LET loaded == AfterRegistrations(calls)
        IN  /\ colorsById = loaded.registry.colorsById
            /\ colorSchema = loaded.registry.colorSchema
            /\ colorReferenceSchema = loaded.registry.colorReferenceSchema
            /\ listener = loaded.listener
            /\ lastCall = loaded.lastCall

\* Nobody resolves a color.
ResolverUnused ==
    resolved = [theme |-> CHOOSE theme \in Themes : TRUE] @@ NoResolution

\* A caller is about to resolve a color for some theme.
ResolverIdle ==
    \E theme \in Themes : resolved = [theme |-> theme] @@ NoResolution

\* No tokens provider is set and nothing is being colorized; the bundle runs
\* in a window.
LanguagesUnused ==
    /\ host = "window"
    /\ languageDef = [settled |-> FALSE, value |-> ""]
    /\ tokenizers = [languageId \in LanguageIds |-> [status |-> "none", support |-> NoSupport]]
    /\ setCall = NoSetCall
    /\ colorizing = NoColorize

\* No tokens provider is set yet; a caller holds a thenable d, not yet
\* resolved; the bundle runs in a window or in a worker.
LanguagesIdle ==
    /\ host \in {"window", "worker"}
    /\ languageDef = [settled |-> FALSE, value |-> ""]
    /\ tokenizers = [languageId \in LanguageIds |-> [status |-> "none", support |-> NoSupport]]
    /\ setCall = NoSetCall
    /\ colorizing = NoColorize

\* No string is being built.
BuilderUnused ==
    /\ pieces = <<>>
    /\ appended = <<>>
    /\ built = [ops |-> 0, last |-> "new", returned |-> <<>>]

\* No line is tokenized through the shared adapter.
LinesUnused ==
    /\ lineInputs = [l \in LineIds |->
                        [state |-> "s1", offsetDelta |-> 0, tokens |-> <<>>,
                         endState |-> "s2"]]
    /\ lineCalls = [l \in LineIds |-> NoLineCall]

\* A caller is about to tokenize the lines, each with its own state and
\* provider answer.
LinesIdle ==
    /\ lineInputs \in [LineIds -> LineInputs]
    /\ lineCalls = [l \in LineIds |-> NoLineCall]

-----------------------------------------------------------------------------
(* The built-in color declarations                                         *)

\* The registerColor declarations of the color registry module, in source
\* order: the id, and the ids its defaults refer to, directly or as the
\* argument of a color function.
ColorRegistryColors ==
    <<
      [id |-> "foreground", refs |-> {}],
      [id |-> "errorForeground", refs |-> {}],
      [id |-> "descriptionForeground", refs |-> {[id |-> "foreground", via |-> "transparent"]}],
      [id |-> "focusBorder", refs |-> {}],
      [id |-> "contrastBorder", refs |-> {}],
      [id |-> "contrastActiveBorder", refs |-> {[id |-> "focusBorder", via |-> "direct"]}],
      [id |-> "selection.background", refs |-> {}],
      [id |-> "textSeparator.foreground", refs |-> {}],
      [id |-> "textLink.foreground", refs |-> {}],
      [id |-> "textLink.activeForeground", refs |-> {}],
      [id |-> "textPreformat.foreground", refs |-> {}],
      [id |-> "textBlockQuote.background", refs |-> {}],
      [id |-> "textBlockQuote.border", refs |-> {}],
      [id |-> "textCodeBlock.background", refs |-> {}],
      [id |-> "widget.shadow", refs |-> {}],
      [id |-> "input.background", refs |-> {}],
      [id |-> "input.foreground", refs |-> {[id |-> "foreground", via |-> "direct"]}],
      [id |-> "input.border", refs |-> {[id |-> "contrastBorder", via |-> "direct"]}],
      [id |-> "inputOption.activeBorder", refs |-> {[id |-> "contrastActiveBorder", via |-> "direct"]}],
      [id |-> "input.placeholderForeground", refs |-> {[id |-> "foreground", via |-> "transparent"]}],
      [id |-> "inputValidation.infoBackground", refs |-> {}],
      [id |-> "inputValidation.infoForeground", refs |-> {}],
      [id |-> "inputValidation.infoBorder", refs |-> {[id |-> "contrastBorder", via |-> "direct"]}],
      [id |-> "inputValidation.warningBackground", refs |-> {}],
      [id |-> "inputValidation.warningForeground", refs |-> {}],
      [id |-> "inputValidation.warningBorder", refs |-> {[id |-> "contrastBorder", via |-> "direct"]}],
      [id |-> "inputValidation.errorBackground", refs |-> {}],
      [id |-> "inputValidation.errorForeground", refs |-> {}],
      [id |-> "inputValidation.errorBorder", refs |-> {[id |-> "contrastBorder", via |-> "direct"]}],
      [id |-> "dropdown.background", refs |-> {}],
      [id |-> "dropdown.listBackground", refs |-> {}],
      [id |-> "dropdown.foreground", refs |-> {}],
      [id |-> "dropdown.border", refs |-> {[id |-> "contrastBorder", via |-> "direct"], [id |-> "dropdown.background", via |-> "direct"]}],
      [id |-> "list.focusBackground", refs |-> {}],
      [id |-> "list.focusForeground", refs |-> {}],
      [id |-> "list.activeSelectionBackground", refs |-> {}],
      [id |-> "list.activeSelectionForeground", refs |-> {}],
      [id |-> "list.inactiveSelectionBackground", refs |-> {}],
      [id |-> "list.inactiveSelectionForeground", refs |-> {}],
      [id |-> "list.inactiveFocusBackground", refs |-> {}],
      [id |-> "list.hoverBackground", refs |-> {}],
      [id |-> "list.hoverForeground", refs |-> {}],
      [id |-> "list.dropBackground", refs |-> {[id |-> "list.focusBackground", via |-> "direct"]}],
      [id |-> "list.highlightForeground", refs |-> {[id |-> "focusBorder", via |-> "direct"]}],
      [id |-> "list.invalidItemForeground", refs |-> {}],
      [id |-> "list.errorForeground", refs |-> {}],
      [id |-> "list.warningForeground", refs |-> {}],
      [id |-> "listFilterWidget.background", refs |-> {}],
      [id |-> "listFilterWidget.outline", refs |-> {}],
      [id |-> "listFilterWidget.noMatchesOutline", refs |-> {[id |-> "contrastBorder", via |-> "direct"]}],
      [id |-> "pickerGroup.foreground", refs |-> {}],
      [id |-> "pickerGroup.border", refs |-> {}],
      [id |-> "button.foreground", refs |-> {}],
      [id |-> "button.background", refs |-> {}],
      [id |-> "button.hoverBackground", refs |-> {[id |-> "button.background", via |-> "darken"], [id |-> "button.background", via |-> "lighten"]}],
      [id |-> "badge.background", refs |-> {}],
      [id |-> "badge.foreground", refs |-> {}],
      [id |-> "scrollbar.shadow", refs |-> {}],
      [id |-> "scrollbarSlider.background", refs |-> {[id |-> "contrastBorder", via |-> "transparent"]}],
      [id |-> "scrollbarSlider.hoverBackground", refs |-> {[id |-> "contrastBorder", via |-> "transparent"]}],
      [id |-> "scrollbarSlider.activeBackground", refs |-> {[id |-> "contrastBorder", via |-> "direct"]}],
      [id |-> "progressBar.background", refs |-> {[id |-> "contrastBorder", via |-> "direct"]}],
      [id |-> "menu.border", refs |-> {[id |-> "contrastBorder", via |-> "direct"]}],
      [id |-> "menu.foreground", refs |-> {[id |-> "dropdown.foreground", via |-> "direct"], [id |-> "foreground", via |-> "direct"]}],
      [id |-> "menu.background", refs |-> {[id |-> "dropdown.background", via |-> "direct"]}],
      [id |-> "menu.selectionForeground", refs |-> {[id |-> "list.activeSelectionForeground", via |-> "direct"]}],
      [id |-> "menu.selectionBackground", refs |-> {[id |-> "list.activeSelectionBackground", via |-> "direct"]}],
      [id |-> "menu.selectionBorder", refs |-> {[id |-> "contrastActiveBorder", via |-> "direct"]}],
      [id |-> "menu.separatorBackground", refs |-> {[id |-> "contrastBorder", via |-> "direct"]}],
      [id |-> "editor.background", refs |-> {}],
      [id |-> "editor.foreground", refs |-> {}],
      [id |-> "editorWidget.background", refs |-> {}],
      [id |-> "editorWidget.border", refs |-> {[id |-> "contrastBorder", via |-> "direct"]}],
      [id |-> "editorWidget.resizeBorder", refs |-> {}],
      [id |-> "editor.selectionBackground", refs |-> {}],
      [id |-> "editor.selectionForeground", refs |-> {}],
      [id |-> "editor.inactiveSelectionBackground", refs |-> {[id |-> "editor.selectionBackground", via |-> "transparent"]}],
      [id |-> "editor.selectionHighlightBackground", refs |-> {[id |-> "editor.background", via |-> "lessProminent"], [id |-> "editor.selectionBackground", via |-> "lessProminent"]}],
      [id |-> "editor.selectionHighlightBorder", refs |-> {[id |-> "contrastActiveBorder", via |-> "direct"]}],
      [id |-> "editor.findMatchBackground", refs |-> {}],
      [id |-> "editor.findMatchHighlightBackground", refs |-> {}],
      [id |-> "editor.findRangeHighlightBackground", refs |-> {}],
      [id |-> "editor.findMatchBorder", refs |-> {[id |-> "contrastActiveBorder", via |-> "direct"]}],
      [id |-> "editor.findMatchHighlightBorder", refs |-> {[id |-> "contrastActiveBorder", via |-> "direct"]}],
      [id |-> "editor.findRangeHighlightBorder", refs |-> {[id |-> "contrastActiveBorder", via |-> "transparent"]}],
      [id |-> "editor.hoverHighlightBackground", refs |-> {}],
      [id |-> "editorHoverWidget.background", refs |-> {[id |-> "editorWidget.background", via |-> "direct"]}],
      [id |-> "editorHoverWidget.border", refs |-> {[id |-> "editorWidget.border", via |-> "direct"]}],
      [id |-> "editorHoverWidget.statusBarBackground", refs |-> {[id |-> "editorHoverWidget.background", via |-> "darken"], [id |-> "editorHoverWidget.background", via |-> "lighten"], [id |-> "editorWidget.background", via |-> "direct"]}],
      [id |-> "editorLink.activeForeground", refs |-> {}],
      [id |-> "diffEditor.insertedTextBackground", refs |-> {}],
      [id |-> "diffEditor.removedTextBackground", refs |-> {}],
      [id |-> "diffEditor.insertedTextBorder", refs |-> {}],
      [id |-> "diffEditor.removedTextBorder", refs |-> {}],
      [id |-> "diffEditor.border", refs |-> {[id |-> "contrastBorder", via |-> "direct"]}],
      [id |-> "editor.snippetTabstopHighlightBackground", refs |-> {}],
      [id |-> "editor.snippetTabstopHighlightBorder", refs |-> {}],
      [id |-> "editor.snippetFinalTabstopHighlightBackground", refs |-> {}],
      [id |-> "editor.snippetFinalTabstopHighlightBorder", refs |-> {}],
      [id |-> "breadcrumb.foreground", refs |-> {[id |-> "foreground", via |-> "transparent"]}],
      [id |-> "breadcrumb.background", refs |-> {[id |-> "editor.background", via |-> "direct"]}],
      [id |-> "breadcrumb.focusForeground", refs |-> {[id |-> "foreground", via |-> "darken"], [id |-> "foreground", via |-> "lighten"]}],
      [id |-> "breadcrumb.activeSelectionForeground", refs |-> {[id |-> "foreground", via |-> "darken"], [id |-> "foreground", via |-> "lighten"]}],
      [id |-> "breadcrumbPicker.background", refs |-> {[id |-> "editorWidget.background", via |-> "direct"]}],
      [id |-> "merge.currentHeaderBackground", refs |-> {}],
      [id |-> "merge.currentContentBackground", refs |-> {[id |-> "merge.currentHeaderBackground", via |-> "transparent"]}],
      [id |-> "merge.incomingHeaderBackground", refs |-> {}],
      [id |-> "merge.incomingContentBackground", refs |-> {[id |-> "merge.incomingHeaderBackground", via |-> "transparent"]}],
      [id |-> "merge.commonHeaderBackground", refs |-> {}],
      [id |-> "merge.commonContentBackground", refs |-> {[id |-> "merge.commonHeaderBackground", via |-> "transparent"]}],
      [id |-> "merge.border", refs |-> {}],
      [id |-> "editorOverviewRuler.currentContentForeground", refs |-> {[id |-> "merge.border", via |-> "direct"], [id |-> "merge.currentHeaderBackground", via |-> "transparent"]}],
      [id |-> "editorOverviewRuler.incomingContentForeground", refs |-> {[id |-> "merge.border", via |-> "direct"], [id |-> "merge.incomingHeaderBackground", via |-> "transparent"]}],
      [id |-> "editorOverviewRuler.commonContentForeground", refs |-> {[id |-> "merge.border", via |-> "direct"], [id |-> "merge.commonHeaderBackground", via |-> "transparent"]}],
      [id |-> "editorOverviewRuler.findMatchForeground", refs |-> {}],
      [id |-> "editorOverviewRuler.selectionHighlightForeground", refs |-> {}]
    >>

\* The registerColor declarations of the editor color registry, in source
\* order.
EditorColors ==
    <<
      [id |-> "editor.lineHighlightBackground", refs |-> {}],
      [id |-> "editor.lineHighlightBorder", refs |-> {}],
      [id |-> "editor.rangeHighlightBackground", refs |-> {}],
      [id |-> "editor.rangeHighlightBorder", refs |-> {[id |-> "contrastActiveBorder", via |-> "direct"]}],
      [id |-> "editorCursor.foreground", refs |-> {}],
      [id |-> "editorCursor.background", refs |-> {}],
      [id |-> "editorWhitespace.foreground", refs |-> {}],
      [id |-> "editorIndentGuide.background", refs |-> {[id |-> "editorWhitespace.foreground", via |-> "direct"]}],
      [id |-> "editorIndentGuide.activeBackground", refs |-> {[id |-> "editorWhitespace.foreground", via |-> "direct"]}],
      [id |-> "editorLineNumber.foreground", refs |-> {}],
      [id |-> "editorActiveLineNumber.foreground", refs |-> {[id |-> "contrastActiveBorder", via |-> "direct"]}],
      [id |-> "editorLineNumber.activeForeground", refs |-> {[id |-> "editorActiveLineNumber.foreground", via |-> "direct"]}],
      [id |-> "editorRuler.foreground", refs |-> {}],
      [id |-> "editorCodeLens.foreground", refs |-> {}],
      [id |-> "editorBracketMatch.background", refs |-> {}],
      [id |-> "editorBracketMatch.border", refs |-> {}],
      [id |-> "editorOverviewRuler.border", refs |-> {}],
      [id |-> "editorGutter.background", refs |-> {[id |-> "editor.background", via |-> "direct"]}],
      [id |-> "editorError.foreground", refs |-> {}],
      [id |-> "editorError.border", refs |-> {}],
      [id |-> "editorWarning.foreground", refs |-> {}],
      [id |-> "editorWarning.border", refs |-> {}],
      [id |-> "editorInfo.foreground", refs |-> {}],
      [id |-> "editorInfo.border", refs |-> {}],
      [id |-> "editorHint.foreground", refs |-> {}],
      [id |-> "editorHint.border", refs |-> {}],
      [id |-> "editorUnnecessaryCode.border", refs |-> {}],
      [id |-> "editorUnnecessaryCode.opacity", refs |-> {}],
      [id |-> "editorOverviewRuler.rangeHighlightForeground", refs |-> {}],
      [id |-> "editorOverviewRuler.errorForeground", refs |-> {}],
      [id |-> "editorOverviewRuler.warningForeground", refs |-> {}],
      [id |-> "editorOverviewRuler.infoForeground", refs |-> {}]
    >>

\* Mutation: the editor colors are declared before the colors they import.
BuiltinColorsEditorFirst == EditorColors \o ColorRegistryColors

\* Load order: the editor color registry imports the color registry, whose
\* declarations run first.
BuiltinColors == ColorRegistryColors \o EditorColors

\* The next declaration runs: registerColor(id, defaults, description).
loadBuiltin ==
    /\ builtins.next <= Len(BuiltinColors)
    /\ builtins' = [next |-> builtins.next + 1,
                    ids |-> Append(builtins.ids, BuiltinColors[builtins.next].id)]
    /\ UNCHANGED <<adapterVars, registryVars, resolveVars, languageVars,
                   builderVars, metadataVars, lineVars, eventVars>>

BuiltinsNext == loadBuiltin

\* No built-in declaration has run.
BuiltinsUnloaded ==
    builtins = [next |-> 1, ids |-> <<>>]

\* onLanguage is not called and no mode is created.
EventsUnused ==
    /\ modeEvents = [fired |-> <<>>, current |-> "none", queued |-> FALSE,
                     disposedAtFire |-> "none", snapshot |-> FALSE]
    /\ subscription = NoSubscription

\* No mode is created yet and onLanguage is not called yet; the emitter of
\* onDidCreateMode is of either kind.
EventsIdle ==
    /\ modeEvents \in [fired : {<<>>}, current : {"none"}, queued : {FALSE},
                        disposedAtFire : {"none"}, snapshot : BOOLEAN]
    /\ subscription = NoSubscription

\* No metadata is being packed.
MetadataUnused ==
    /\ fields = [languageId |-> 0, tokenType |-> 0, fontStyle |-> 0,
                 foreground |-> 0, background |-> 0]
    /\ packed = <<>>
    /\ unpacked = <<>>

\* An empty registry; one line is about to be tokenized: the caller holds a
\* state and a theme is active.
Init ==
    /\ themeName \in ThemeNames
    /\ AdapterIdle
    /\ RegistryEmpty
    /\ ResolverUnused
    /\ LanguagesUnused
    /\ BuilderUnused
    /\ MetadataUnused
    /\ LinesUnused
    /\ EventsUnused
    /\ BuiltinsUnloaded

\* An empty registry, the adapter idle under the default theme.
InitRegistry ==
    /\ themeName = "vs"
    /\ AdapterUnused
    /\ RegistryEmpty
    /\ ResolverUnused
    /\ LanguagesUnused
    /\ BuilderUnused
    /\ MetadataUnused
    /\ LinesUnused
    /\ EventsUnused
    /\ BuiltinsUnloaded

\* The registry as the loaded modules left it; a caller resolves a color.
InitResolve ==
    /\ themeName = "vs"
    /\ AdapterUnused
    /\ RegistryLoaded
    /\ ResolverIdle
    /\ LanguagesUnused
    /\ BuilderUnused
    /\ MetadataUnused
    /\ LinesUnused
    /\ EventsUnused
    /\ BuiltinsUnloaded

\* Tokens providers are set and texts colorized.
InitLanguages ==
    /\ themeName = "vs"
    /\ AdapterUnused
    /\ RegistryEmpty
    /\ ResolverUnused
    /\ LanguagesIdle
    /\ BuilderUnused
    /\ MetadataUnused
    /\ LinesUnused
    /\ EventsUnused
    /\ BuiltinsUnloaded

\* A new string builder.
InitBuilder ==
    /\ themeName = "vs"
    /\ AdapterUnused
    /\ RegistryEmpty
    /\ ResolverUnused
    /\ LanguagesUnused
    /\ BuilderUnused
    /\ MetadataUnused
    /\ LinesUnused
    /\ EventsUnused
    /\ BuiltinsUnloaded

\* The fields of one token, about to be packed.
MetadataIdle ==
    /\ fields \in FieldValues
    /\ packed = <<>>
    /\ unpacked = <<>>

\* Several lines through one adapter; the theme service starts with "vs".
InitLines ==
    /\ themeName = "vs"
    /\ AdapterUnused
    /\ RegistryEmpty
    /\ ResolverUnused
    /\ LanguagesUnused
    /\ BuilderUnused
    /\ MetadataUnused
    /\ LinesIdle
    /\ EventsUnused
    /\ BuiltinsUnloaded

\* onLanguage and the mode-creation events.
InitOnLanguage ==
    /\ themeName = "vs"
    /\ AdapterUnused
    /\ RegistryEmpty
    /\ ResolverUnused
    /\ LanguagesUnused
    /\ BuilderUnused
    /\ MetadataUnused
    /\ LinesUnused
    /\ EventsIdle
    /\ BuiltinsUnloaded

\* The modules that declare the built-in colors are about to load.
InitBuiltins ==
    /\ themeName = "vs"
    /\ AdapterUnused
    /\ RegistryEmpty
    /\ ResolverUnused
    /\ LanguagesUnused
    /\ BuilderUnused
    /\ MetadataUnused
    /\ LinesUnused
    /\ EventsUnused
    /\ BuiltinsUnloaded

InitMetadata ==
    /\ themeName = "vs"
    /\ AdapterUnused
    /\ RegistryEmpty
    /\ ResolverUnused
    /\ LanguagesUnused
    /\ BuilderUnused
    /\ MetadataIdle
    /\ LinesUnused
    /\ EventsUnused
    /\ BuiltinsUnloaded

Next ==
    \/ AdapterNext \/ RegistryNext \/ ResolveNext \/ LanguagesNext \/ BuilderNext
    \/ MetadataNext \/ LinesNext \/ OnLanguageNext \/ BuiltinsNext

Spec == Init /\ [][Next]_vars

\* One line through the adapter.
SpecAdapter == Init /\ [][AdapterNext]_vars

\* Several independent lines through one adapter, the theme changing.
SpecLines == InitLines /\ [][LinesNext]_vars

\* One onLanguage subscription under mode-creation events.
SpecOnLanguage == InitOnLanguage /\ [][OnLanguageNext]_vars

\* The built-in color declarations, one after the other.
SpecBuiltins == InitBuiltins /\ [][BuiltinsNext]_vars

\* The color registry under register and deregister calls.
SpecRegistry == InitRegistry /\ [][RegistryNext]_vars

\* One resolution against a loaded registry.
SpecResolve == InitResolve /\ [][ResolveNext]_vars

\* One setMonarchTokensProvider call and one colorize call.
SpecLanguages == InitLanguages /\ [][LanguagesNext]_vars

\* One string builder under its five operations.
SpecBuilder == InitBuilder /\ [][BuilderNext]_vars

\* One metadata word packed and read back.
SpecMetadata == InitMetadata /\ [][MetadataNext]_vars

-----------------------------------------------------------------------------
(* Properties of the adapter                                               *)

raw == actualResult.tokens

StartsOf(tokens) == [i \in 1..Len(tokens) |-> tokens[i].startIndex]

OffsetsOf(tokens) == [i \in 1..Len(tokens) |-> tokens[i].offset]

\* The corrected start index c[i] of raw token i: c[1] = 0 and
\* c[i] = max(r[i].startIndex, c[i-1]).
RECURSIVE Corrected(_, _)
Corrected(r, i) ==
    IF i = 1 THEN 0 ELSE Max(r[i].startIndex, Corrected(r, i - 1))

\* C1: for a non-empty raw token list and any offsetDelta, the first classic
\* token starts at offsetDelta and the start indices never decrease.
C1_ClassicMonotonic ==
    (call.op = "tokenize" /\ Len(raw) > 0) =>
        /\ Len(result.tokens) > 0
        /\ result.tokens[1].offset = call.offsetDelta
        /\ \A i \in 2..Len(result.tokens) :
              result.tokens[i].offset >= result.tokens[i - 1].offset

\* tokenize ran on a list with a negative first start index and an
\* out-of-order later one, under a negative offsetDelta.
C1_Witness ==
    /\ call.op = "tokenize"
    /\ call.offsetDelta = -2
    /\ StartsOf(raw) = <<-1, 5, 2>>
    /\ OffsetsOf(result.tokens) = <<-2, 3, 3>>

\* C2: the classic form is the reference operator: n tokens in order, start
\* index c[i] + offsetDelta, scopes unchanged, the adapter's language on each;
\* raw starts [0, 5, 2] with offsetDelta 0 give [0, 5, 5].
C2_ClassicReference ==
    call.op = "tokenize" =>
        /\ Len(result.tokens) = Len(raw)
        /\ \A i \in 1..Len(raw) :
              /\ result.tokens[i].offset = Corrected(raw, i) + call.offsetDelta
              /\ result.tokens[i].type = raw[i].scopes
              /\ result.tokens[i].language = LanguageIdentifier.language
        /\ (StartsOf(raw) = <<0, 5, 2>> /\ call.offsetDelta = 0) =>
              OffsetsOf(result.tokens) = <<0, 5, 5>>

\* The scenario of the out-of-order third token.
C2_Witness ==
    /\ call.op = "tokenize"
    /\ call.offsetDelta = 0
    /\ StartsOf(raw) = <<0, 5, 2>>
    /\ raw[1].scopes = "x" /\ raw[2].scopes = "y" /\ raw[3].scopes = "x"
    /\ OffsetsOf(result.tokens) = <<0, 5, 5>>

\* C3: tokenize and tokenize2 return the input state object itself when the
\* provider's end state equals it, and the provider's end state otherwise.
C3_StateReuse ==
    call.op \in {"tokenize", "tokenize2"} =>
        IF StateEquals(actualResult.endState, call.state)
        THEN result.endState = call.state
        ELSE result.endState = actualResult.endState

\* The provider returned another object that equals the input state.
C3_Witness ==
    /\ call.op = "tokenize2"
    /\ call.state = "s1"
    /\ actualResult.endState = "s1copy"
    /\ result.endState = "s1"

\* The metadata TokenTheme.match gives raw token i under the active theme.
MetadataOf(r, i) == TokenThemeMatch(themeName, LanguageIdentifier.id, r[i].scopes)

\* The raw tokens that begin a maximal run of equal metadata.
RunStarts(r) ==
    {i \in 1..Len(r) : i = 1 \/ MetadataOf(r, i) # MetadataOf(r, i - 1)}

NumRuns(r) == Cardinality(RunStarts(r))

\* The raw token that begins the k-th run.
NthRunStart(r, k) ==
    CHOOSE i \in RunStarts(r) : Cardinality({j \in RunStarts(r) : j <= i}) = k

NumPairs == Len(result.tokens) \div 2

PairStart(k) == result.tokens[2 * k - 1]

PairMetadata(k) == result.tokens[2 * k]

\* The start index of the k-th run as the binary form corrects it: only the
\* runs' first tokens take part in the clamping.
RECURSIVE RunCorrected(_, _)
RunCorrected(r, k) ==
    IF k = 1 THEN 0
    ELSE Max(r[NthRunStart(r, k)].startIndex, RunCorrected(r, k - 1))

OnePairPerRun ==
    /\ Len(result.tokens) = 2 * NumRuns(raw)
    /\ \A k \in 1..NumRuns(raw) :
          PairMetadata(k) = ToUint32(MetadataOf(raw, NthRunStart(raw, k)))

C5_LengthIsTwicePerRun ==
    call.op = "tokenize2" =>
        /\ Len(result.tokens) = 2 * NumRuns(raw)
        /\ \A k \in 1..(NumPairs - 1) : PairMetadata(k) # PairMetadata(k + 1)

\* Three raw tokens in two runs gave four entries.
C5_Witness ==
    /\ call.op = "tokenize2"
    /\ Len(raw) = 3
    /\ NumRuns(raw) = 2
    /\ MetadataOf(raw, 2) = MetadataOf(raw, 3)
    /\ Len(result.tokens) = 4

\* The number a Uint32Array element below 2^31 holds.
Uint32Value(w) == w.hi * 65536 + w.lo

-----------------------------------------------------------------------------
(* Properties of the color registry                                        *)

Range(seq) == {seq[k] : k \in 1..Len(seq)}

RegisteredIds == Range(ObjectKeys(colorsById))

\* The ids of the contributions getColors() returns.
GetColorsIds == {getColors[k].id : k \in 1..Len(getColors)}

\* C7: after deregisterColor(id) getColors() has no contribution with that
\* id, and deregisterColor of an id that is not registered leaves the
\* contribution map, the schema properties and the reference enumeration
\* unchanged.
C7_AsStated ==
    [][lastCall'.op = "deregisterColor" =>
          /\ ~ObjectHas(colorsById', lastCall'.id)
          /\ ~ObjectHas(colorsById, lastCall'.id) =>
                UNCHANGED <<colorsById, colorSchema, colorReferenceSchema>>]_vars

\* C8: after a deregisterColor(id) the id is in none of getColors(), the
\* color schema's properties and the reference schema's enum list.
C8_AsStated ==
    lastCall.op = "deregisterColor" =>
        /\ lastCall.id \notin GetColorsIds
        /\ ~ObjectHas(colorSchema.properties, lastCall.id)
        /\ lastCall.id \notin Range(colorReferenceSchema.enum)

\* C9: registerColor returns id; getColors() then holds exactly one
\* contribution for id, with the fields of this registration
\* (needsTransparency false when omitted), and resolveDefaultColor resolves
\* this registration's defaults.
C9_LastWriterWins ==
    lastCall.op = "registerColor" =>
        LET id == lastCall.id
            args == lastCall.args
        IN  /\ lastCall.returned = Given(id)
            /\ Cardinality({k \in 1..Len(getColors) : getColors[k].id = id}) = 1
            /\ \A k \in 1..Len(getColors) :
                  getColors[k].id = id =>
                      /\ getColors[k].defaults = args.defaults
                      /\ getColors[k].description = args.description
                      /\ getColors[k].needsTransparency =
                             (args.needsTransparency = Given(TRUE))
                      /\ getColors[k].deprecationMessage = args.deprecationMessage
            /\ \A theme \in Themes :
                  resolveDefaultColor(id, theme) =
                      IF args.defaults = Null
                      THEN Undefined
                      ELSE resolveColorValue(args.defaults[theme.type], theme)

\* "a" was registered with the second argument list and then again with the
\* first, whose dark default is the literal #FF0000.
C9_Witness ==
    /\ lastCall.op = "registerColor"
    /\ lastCall.id = "a"
    /\ lastCall.args.defaults = DefaultsOne
    /\ lastCall.args.needsTransparency = Omitted
    /\ colorReferenceSchema.enumDescriptions = <<"second", "first">>
    /\ colorReferenceSchema.enum = <<"a", "a">>
    /\ Len(getColors) = 1
    /\ getColors[1].needsTransparency = FALSE
    /\ \E theme \in Themes :
          theme.type = "dark" /\ resolveDefaultColor("a", theme) = Color("#FF0000")

\* C10: every registerColor and deregisterColor call has run the listeners
\* exactly once, and what they saw is the registry as the call left it.
C10_FiredOnceAfterUpdate ==
    /\ listener.fired = lastCall.n
    /\ listener.seen = CurrentRegistry

\* Calls of both kinds have fired, the last a deregisterColor of an id that
\* was not registered.
C10_Witness ==
    /\ lastCall.op = "deregisterColor"
    /\ lastCall.id = "b"
    /\ RegisteredIds = {"a"}
    /\ colorReferenceSchema.enum = <<"a">>
    /\ lastCall.n = 2
    /\ listener.fired = 2

-----------------------------------------------------------------------------
(* Resolution: C11 .. C15                                                  *)

\* The contribution a resolveDefaultColor call was asked about.
ResolvedDesc == ObjectGet(colorsById, resolved.arg.text)

\* The theme of the call resolves the id itself or through the registry.
ThemeKnows(id) ==
    \/ ObjectHas(resolved.theme.colors, id)
    \/ resolved.theme.useDefault /\ ObjectHas(colorsById, id)

\* C11: resolveDefaultColor returns undefined, and does not throw, when the
\* id is not registered, when its defaults are null, when its default for
\* the theme's type is null, and when that default is a reference to an id
\* the theme cannot resolve.
C11_MissingIsUndefined ==
    resolved.op = "resolveDefaultColor" =>
        LET colorDesc == ResolvedDesc
        IN  /\ colorDesc = Undefined => resolved.color = Undefined
            /\ (colorDesc # Undefined /\ colorDesc.defaults = Null) =>
                   resolved.color = Undefined
            /\ (colorDesc # Undefined /\ colorDesc.defaults # Null) =>
                   LET default == colorDesc.defaults[resolved.theme.type]
                   IN  /\ default = Null => resolved.color = Undefined
                       /\ (default.kind = "string" /\ ~default.hash
                              /\ ~ThemeKnows(default.text)) =>
                              resolved.color = Undefined

\* "a" holds the second defaults, whose dark default refers to "a" itself;
\* a dark theme that has no color for "a" and no fallback leaves it undefined.
C11_Witness ==
    /\ resolved.op = "resolveDefaultColor"
    /\ resolved.arg.text = "a"
    /\ ResolvedDesc # Undefined
    /\ ResolvedDesc.defaults = DefaultsTwo
    /\ resolved.theme.type = "dark"
    /\ ~resolved.theme.useDefault
    /\ ~ThemeKnows("a")
    /\ resolved.color = Undefined
    /\ Len(resolved.trace[1].inner) = 1

\* The registrations of the example: "a" with the dark default "#FF0000",
\* "b" with the dark default "a".
C12_Registered ==
    /\ ObjectHas(colorsById, "a")
    /\ ObjectHas(colorsById, "b")
    /\ ObjectGet(colorsById, "a").defaults # Null
    /\ ObjectGet(colorsById, "b").defaults # Null
    /\ ObjectGet(colorsById, "a").defaults.dark = Str("#FF0000", TRUE)
    /\ ObjectGet(colorsById, "b").defaults.dark = Str("a", FALSE)

\* C12: with "a" registered with the dark default "#FF0000" and "b" with
\* the dark default "a", resolveDefaultColor("b", theme) is the color
\* #FF0000 for a dark theme that does not override "a" and whose getColor
\* yields the registry default of the ids it does not override.
C12_ReferenceResolves ==
    ( /\ resolved.op = "resolveDefaultColor"
      /\ resolved.arg.text = "b"
      /\ C12_Registered
      /\ resolved.theme.type = "dark"
      /\ resolved.theme.useDefault
      /\ ~ObjectHas(resolved.theme.colors, "a") )
    => resolved.color = Color("#FF0000")

\* The example's call has returned, after one theme.getColor("a") that went
\* back to the registry.
C12_Witness ==
    /\ resolved.op = "resolveDefaultColor"
    /\ resolved.arg.text = "b"
    /\ C12_Registered
    /\ resolved.theme.type = "dark"
    /\ resolved.theme.useDefault
    /\ resolved.color = Color("#FF0000")
    /\ resolved.trace[1].inner[1].call = "theme.getColor"
    /\ resolved.trace[1].inner[1].inner[1].call = "resolveDefaultColor"

\* C13: resolveColorValue dispatches on its value: null gives undefined; a
\* string starting with '#' gives the parsed literal and the theme is not
\* consulted; any other string gives what exactly one theme.getColor(value)
\* call returned, the resolver itself making no registry lookup; a Color
\* gives that Color; a function gives what one call of it with the theme
\* returned; anything else gives undefined.
C13_Dispatch ==
    resolved.op = "resolveColorValue" =>
        LET colorValue == resolved.arg
            trace == resolved.trace
        IN  /\ colorValue = Null =>
                  resolved.color = Undefined /\ trace = <<>>
            /\ (colorValue.kind = "string" /\ colorValue.hash) =>
                  /\ resolved.color = ColorFromHex(colorValue.text)
                  /\ \A k \in 1..Len(trace) : trace[k].call = "Color.fromHex"
            /\ (colorValue.kind = "string" /\ ~colorValue.hash) =>
                  /\ Len(trace) = 1
                  /\ trace[1].call = "theme.getColor"
                  /\ trace[1].arg = colorValue
                  /\ resolved.color = trace[1].returned
            /\ colorValue.kind = "Color" =>
                  resolved.color = colorValue /\ trace = <<>>
            /\ colorValue.kind = "function" =>
                  /\ Len(trace) = 1
                  /\ trace[1].call = "colorValue(theme)"
                  /\ trace[1].arg = colorValue
                  /\ resolved.color = trace[1].returned
            /\ colorValue.kind \in {"undefined", "other"} =>
                  resolved.color = Undefined /\ trace = <<>>

\* A reference the theme itself does not know was resolved: the theme was
\* asked once, found nothing although the registry holds a default for the
\* id, and the resolver did not look further.
C13_Witness ==
    /\ resolved.op = "resolveColorValue"
    /\ resolved.arg = Str("a", FALSE)
    /\ ~resolved.theme.useDefault
    /\ ObjectHas(colorsById, "a")
    /\ ObjectGet(colorsById, "a").defaults = DefaultsOne
    /\ Len(resolved.trace) = 1
    /\ resolved.trace[1].call = "theme.getColor"
    /\ resolved.color = Undefined

\* The index of the first value of a oneOf that resolves to a color for the
\* theme of the call, and 0 when none does.
FirstDefined(colorValues) ==
    LET defined == { k \in 1..Len(colorValues) :
                       resolveColorValue(colorValues[k], resolved.theme).kind = "Color" }
    IN  IF defined = {} THEN 0
        ELSE CHOOSE k \in defined : \A j \in defined : k <= j

\* No value of a oneOf leads into a resolution that does not return.
AllReturn(colorValues) ==
    \A k \in 1..Len(colorValues) :
        resolveColorValue(colorValues[k], resolved.theme) # Diverges

\* C14: oneOf(v1, ..., vn)(theme) resolves its values in order and returns
\* the first defined resolution; it resolves no value after that one; it
\* returns undefined when no value resolves, n = 0 included; and
\* oneOf(undefined, "#112233") is the color #112233.
C14_OneOfFirstDefined ==
    ( /\ resolved.op = "resolveColorValue"
      /\ resolved.arg.kind = "function"
      /\ resolved.arg.fn = "oneOf"
      /\ AllReturn(resolved.arg.values) )
    => LET colorValues == resolved.arg.values
           first == FirstDefined(colorValues)
           attempts == resolved.trace[1].inner
       IN  /\ \A k \in 1..Len(attempts) :
                 /\ attempts[k].call = "resolveColorValue"
                 /\ attempts[k].arg = colorValues[k]
           /\ first = 0 =>
                 /\ resolved.color = Undefined
                 /\ Len(attempts) = Len(colorValues)
           /\ first > 0 =>
                 /\ resolved.color = resolveColorValue(colorValues[first], resolved.theme)
                 /\ Len(attempts) = first
           /\ colorValues = <<Undefined, Str("#112233", TRUE)>> =>
                 resolved.color = Color("#112233")

\* oneOf(undefined, "#112233") was resolved: two attempts, the second the
\* literal.
C14_Witness ==
    /\ resolved.op = "resolveColorValue"
    /\ resolved.arg = OneOf(<<Undefined, Str("#112233", TRUE)>>)
    /\ Len(resolved.trace[1].inner) = 2
    /\ resolved.color = Color("#112233")

\* The ids a color value refers to.
RefsOf(colorValue) ==
    IF colorValue = Null THEN {}
    ELSE IF colorValue.kind = "string"
         THEN IF colorValue.hash THEN {} ELSE {colorValue.text}
    ELSE IF colorValue.kind = "function"
         THEN UNION { IF colorValue.values[k].kind = "string"
                         /\ ~colorValue.values[k].hash
                      THEN {colorValue.values[k].text} ELSE {}
                      : k \in 1..Len(colorValue.values) }
    ELSE {}

\* The reference graph of the registered defaults for one theme type: the
\* ids the default of id refers to.
RefEdges(type, id) ==
    LET colorDesc == ObjectGet(colorsById, id)
    IN  IF colorDesc = Undefined \/ colorDesc.defaults = Null THEN {}
        ELSE RefsOf(colorDesc.defaults[type])

\* The ids reached from id in at most n steps of the graph, n >= 1.
RECURSIVE ReachedIn(_, _, _)
ReachedIn(type, id, n) ==
    IF n = 1 THEN RefEdges(type, id)
    ELSE LET near == ReachedIn(type, id, n - 1)
         IN  near \cup UNION { RefEdges(type, mid) : mid \in near }

Acyclic(type) ==
    \A id \in ColorIds : id \notin ReachedIn(type, id, Cardinality(ColorIds))

\* A -> B and B -> A by direct references, for one theme type.
TwoCycle(type) ==
    \E A \in ColorIds, B \in ColorIds :
        /\ A # B
        /\ ObjectHas(colorsById, A) /\ ObjectHas(colorsById, B)
        /\ ObjectGet(colorsById, A).defaults # Null
        /\ ObjectGet(colorsById, B).defaults # Null
        /\ ObjectGet(colorsById, A).defaults[type] = Str(B, FALSE)
        /\ ObjectGet(colorsById, B).defaults[type] = Str(A, FALSE)

\* C15: for a theme that falls back to the registry defaults,
\* resolveDefaultColor returns when the reference graph is acyclic, and,
\* there being no cycle detection, does not return for an id on a cycle
\* A -> B, B -> A that the theme does not override.
C15_TerminatesIffAcyclic ==
    ( /\ resolved.op = "resolveDefaultColor"
      /\ resolved.theme.useDefault )
    => /\ Acyclic(resolved.theme.type) => resolved.color # Diverges
       /\ ( /\ TwoCycle(resolved.theme.type)
            /\ resolved.arg.text \in ColorIds
            /\ \A id \in ColorIds : ~ObjectHas(resolved.theme.colors, id) )
          => resolved.color = Diverges

\* "a" refers to "b" and "b" to "a" under the light theme, and the call for
\* "a" did not return.
C15_Witness ==
    /\ resolved.op = "resolveDefaultColor"
    /\ resolved.arg.text = "a"
    /\ resolved.theme.type = "light"
    /\ resolved.theme.useDefault
    /\ TwoCycle("light")
    /\ ~Acyclic("light")
    /\ resolved.color = Diverges

\* An acyclic chain was followed to its end: "b" refers to "a", "a" is a
\* literal, and the call returned.
C15_WitnessAcyclic ==
    /\ resolved.op = "resolveDefaultColor"
    /\ resolved.arg.text = "b"
    /\ resolved.theme.type = "dark"
    /\ resolved.theme.useDefault
    /\ Acyclic("dark")
    /\ RefEdges("dark", "b") = {"a"}
    /\ resolved.color = Color("#FF0000")

-----------------------------------------------------------------------------
(* Tokens providers and colorize: C16 .. C18                               *)

\* C16: a setMonarchTokensProvider call with a thenable d returns its
\* disposable without waiting for d; no tokenizer of the language is
\* installed while d is unresolved; once d has resolved, the tokenizer
\* created from its value is installed or about to be; and a call with an
\* immediate definition has installed the tokenizer when it returns.
C16_AsStated ==
    /\ setCall.kind = "thenable" =>
          /\ setCall.outcome = "returned"
          /\ ~languageDef.settled =>
                tokenizers[setCall.languageId].status # "installed"
          /\ languageDef.settled =>
                \/ tokenizers[setCall.languageId] =
                      [status |-> "installed",
                       support |-> create(setCall.languageId, languageDef.value)]
                \/ ENABLED thenCreate
    /\ setCall.kind = "immediate" =>
          /\ setCall.outcome = "returned"
          /\ tokenizers[setCall.languageId].status = "installed"
          /\ tokenizers[setCall.languageId].support.languageId = setCall.languageId

-----------------------------------------------------------------------------
(* CompatStringBuilder: C19                                                *)

\* The string the appends of a log amount to: their arguments in call
\* order, a char code standing for the one code unit of its low 16 bits.
RECURSIVE Concatenated(_)
Concatenated(log) ==
    IF log = <<>> THEN <<>>
    ELSE LET n == Len(log)
             piece == IF log[n].op = "appendASCIIString"
                      THEN log[n].arg
                      ELSE <<log[n].arg[1] % 65536>>
         IN  Concatenated(SubSeq(log, 1, n - 1)) \o piece

\* The number of characters the appends of a log amount to: one for each
\* write1 and appendASCII, the string's length for each appendASCIIString.
RECURSIVE Characters(_)
Characters(log) ==
    IF log = <<>> THEN 0
    ELSE LET n == Len(log)
         IN  Characters(SubSeq(log, 1, n - 1))
             + (IF log[n].op = "appendASCIIString" THEN Len(log[n].arg) ELSE 1)

\* C19: the builder holds the concatenation, in call order, of everything
\* appended since the last reset, each write1 and appendASCII contributing
\* exactly one character; build() returns that string and leaves it as it
\* is; reset() leaves the empty string.
C19_BuildIsConcatenation ==
    /\ pieces = Concatenated(appended)
    /\ Len(pieces) = Characters(appended)
    /\ built.last = "build" => built.returned = <<Concatenated(appended)>>
    /\ built.last = "reset" => pieces = <<>>

\* After an earlier reset, a char code beyond 16 bits, a string and an
\* ASCII char code were appended and the string was built: four characters.
C19_Witness ==
    /\ built.ops = 5
    /\ built.last = "build"
    /\ Len(appended) = 3
    /\ appended[1] = [op |-> "write1", arg |-> <<65601>>]
    /\ appended[2] = [op |-> "appendASCIIString", arg |-> <<104, 105>>]
    /\ appended[3] = [op |-> "appendASCII", arg |-> <<65>>]
    /\ built.returned = << <<65, 104, 105, 65>> >>

-----------------------------------------------------------------------------
(* The metadata word: C20                                                  *)

\* The bit ranges the layout is said to have.
ClaimedBits ==
    [languageId |-> 0..7, tokenType |-> 8..10, fontStyle |-> 11..13,
     foreground |-> 14..22, background |-> 23..31]

\* C20: in the metadata word the language id occupies bits 0-7, the token
\* type bits 8-10, the font style bits 11-13, the foreground bits 14-22 and
\* the background bits 23-31; the fields are pairwise disjoint and cover
\* the 32 bits; a packed word carries each field's value in those bits, and
\* unpacking it gives the packed values back.
C20_LayoutBitExact ==
    /\ \A name \in FieldNames : BitsOf(FieldLetters[name]) = ClaimedBits[name]
    /\ \A name \in FieldNames, other \in FieldNames :
          name # other => ClaimedBits[name] \cap ClaimedBits[other] = {}
    /\ UNION { ClaimedBits[name] : name \in FieldNames } = 0..31
    /\ packed # <<>> =>
          /\ Len(packed[1]) = 32
          /\ \A name \in FieldNames : \A bit \in ClaimedBits[name] :
                LET lowest == CHOOSE low \in ClaimedBits[name] :
                                  \A other \in ClaimedBits[name] : low <= other
                IN  packed[1][bit + 1] = (fields[name] \div (2 ^ (bit - lowest))) % 2
    /\ unpacked # <<>> => unpacked[1] = fields

\* A word with every field at its largest value but the token type was
\* packed and read back: bits 8 and 9 are 0, all others 1.
C20_Witness ==
    /\ fields = [languageId |-> 255, tokenType |-> 4, fontStyle |-> 7,
                 foreground |-> 511, background |-> 511]
    /\ packed # <<>>
    /\ unpacked = <<fields>>
    /\ { bit \in 0..31 : packed[1][bit + 1] = 0 } = {8, 9}

-----------------------------------------------------------------------------
(* The adapter again: C21, C23, C26, C27, C29                              *)

\* The start index the classic form emits for raw token i of the same list
\* under the same offsetDelta.
ClassicStart(i) ==
    toClassicTokens(raw, LanguageIdentifier.language, call.offsetDelta)[i].offset

\* The provider reports start indices that never decrease after the first.
RawInOrder == \A i \in 3..Len(raw) : raw[i].startIndex >= raw[i - 1].startIndex

\* The example: raw tokens (0, m1), (5, m1), (2, m2).
C21_Example ==
    /\ StartsOf(raw) = <<0, 5, 2>>
    /\ MetadataOf(raw, 1) = MetadataOf(raw, 2)
    /\ MetadataOf(raw, 2) # MetadataOf(raw, 3)

C23_AsStated ==
    (call.op = "encodedTokenize2" /\ StateEquals(actualResult.endState, call.state))
    => result.endState = call.state

-----------------------------------------------------------------------------
(* The color registry again: C22                                           *)

\* How often an id occurs in the reference enumeration.
EnumCount(id) ==
    Cardinality({ k \in 1..Len(colorReferenceSchema.enum) :
                    colorReferenceSchema.enum[k] = id })

\* C22: after any sequence of registerColor and deregisterColor calls the
\* reference enumeration holds every registered id exactly once and no
\* other id, enum and enumDescriptions have the same length and each
\* description is that of the contribution at the same position, and the
\* keys of the color schema's properties are the registered ids.
C22_AsStated ==
    /\ \A id \in ColorIds :
          EnumCount(id) = (IF id \in RegisteredIds THEN 1 ELSE 0)
    /\ Len(colorReferenceSchema.enum) = Len(colorReferenceSchema.enumDescriptions)
    /\ \A k \in 1..Len(colorReferenceSchema.enum) :
          LET colorDesc == ObjectGet(colorsById, colorReferenceSchema.enum[k])
          IN  /\ colorDesc # Undefined
              /\ colorReferenceSchema.enumDescriptions[k] = colorDesc.description
    /\ Range(ObjectKeys(colorSchema.properties)) = RegisteredIds

-----------------------------------------------------------------------------
(* Derived colors: C24, C25                                                *)

\* What the k-th argument value of the resolved function resolves to under
\* the theme of the call.
ArgumentColor(k) == resolveColorValue(resolved.arg.values[k], resolved.theme)

\* C24: the functions darken, lighten and transparent return yield
\* undefined when their value resolves to undefined under the theme, and
\* otherwise the method of that name applied once, with the factor, to the
\* color the value resolves to.
C24_DerivedOrUndefined ==
    ( /\ resolved.op = "resolveColorValue"
      /\ resolved.arg.kind = "function"
      /\ resolved.arg.fn \in {"darken", "lighten", "transparent"} )
    => /\ ArgumentColor(1) = Undefined => resolved.color = Undefined
       /\ ArgumentColor(1).kind = "Color" =>
             /\ resolved.color =
                   [kind |-> "Color", method |-> resolved.arg.fn,
                    on |-> ArgumentColor(1), args |-> <<resolved.arg.factor>>]
             /\ "on" \notin DOMAIN ArgumentColor(1)
       /\ Len(resolved.trace[1].inner) = 1

\* darken("a", 0.2) was resolved for a dark theme that falls back to the
\* registered default #FF0000 of "a".
C24_Witness ==
    /\ resolved.op = "resolveColorValue"
    /\ resolved.arg = Derived("darken", Str("a", FALSE), Number(2, 10))
    /\ resolved.theme.useDefault
    /\ resolved.color = Applied("darken", Color("#FF0000"), <<Number(2, 10)>>)

\* lighten of a reference nothing resolves gave undefined.
C24_WitnessUndefined ==
    /\ resolved.op = "resolveColorValue"
    /\ resolved.arg = Derived("lighten", Str("a", FALSE), Number(2, 10))
    /\ ~ObjectHas(colorsById, "a")
    /\ resolved.color = Undefined

\* C25: the function lessProminent returns yields undefined when its value
\* is unresolved, whatever the background; the value made transparent by
\* factor * transparency when only the value resolves; and otherwise the
\* lighter interpolation when the value is darker than the background and
\* the darker interpolation when it is not, made transparent by
\* transparency.
C25_LessProminent ==
    ( /\ resolved.op = "resolveColorValue"
      /\ resolved.arg.kind = "function"
      /\ resolved.arg.fn = "lessProminent" )
    => LET fn == resolved.arg
           from == ArgumentColor(1)
           backgroundColor == ArgumentColor(2)
       IN  /\ from = Undefined =>
                 /\ resolved.color = Undefined
                 /\ Len(resolved.trace[1].inner) = 1
           /\ (from.kind = "Color" /\ backgroundColor = Undefined) =>
                 resolved.color =
                     Applied("transparent", from,
                             <<Number(fn.factor.num * fn.transparency.num,
                                      fn.factor.den * fn.transparency.den)>>)
           /\ (from.kind = "Color" /\ backgroundColor.kind = "Color") =>
                 resolved.color =
                     Applied("transparent",
                             Applied(IF Luminance(from) < Luminance(backgroundColor)
                                     THEN "getLighterColor"
                                     ELSE "getDarkerColor",
                                     from, <<backgroundColor, fn.factor>>),
                             <<fn.transparency>>)

\* lessProminent("#112233", #0000FF, 0.3, 0.6): the value is the darker one,
\* so the lighter interpolation was taken.
C25_Witness ==
    /\ resolved.op = "resolveColorValue"
    /\ resolved.arg = LessProminent(Str("#112233", TRUE), Color("#0000FF"),
                                    Number(3, 10), Number(6, 10))
    /\ resolved.color.on.method = "getLighterColor"
    /\ resolved.color.args = <<Number(6, 10)>>


-----------------------------------------------------------------------------
(* Several lines through one adapter: C26, C27                             *)

\* What tokenize returns for line l when it is the only call the adapter
\* ever gets: the loop over the line's own raw tokens, from a new array.
AloneTokens(l) ==
    ClassicLoop(lineInputs[l].tokens, LanguageIdentifier.language,
                lineInputs[l].offsetDelta, 1, 0, <<>>)

AloneEndState(l) ==
    IF StateEquals(lineInputs[l].endState, lineInputs[l].state)
    THEN lineInputs[l].state
    ELSE lineInputs[l].endState

BinaryUnder(l, theme) ==
    LET res == BinaryLoop(lineInputs[l].tokens, lineInputs[l].offsetDelta,
                          LanguageIdentifier.id, theme, 1, 0, <<>>)
    IN  [k \in 1..Len(res) |-> ToUint32(res[k])]

\* C27: tokenize2 takes the token theme from the theme service at each call:
\* a line's binary tokens are those of the theme active when its call ran,
\* and a line already produced keeps its tokens when the theme changes or
\* another line is tokenized.
C27_ThemeReadAtCall ==
    /\ [](\A l \in LineIds :
             lineCalls[l].op = "tokenize2"
             => lineCalls[l].result.tokens = BinaryUnder(l, lineCalls[l].theme))
    /\ [][\A l \in LineIds :
             lineCalls[l].op # "none" => lineCalls'[l] = lineCalls[l]]_vars

\* Two lines with the same raw tokens, the theme set to "vs-dark" between
\* their calls: the later line has the new theme's metadata.
C27_Witness ==
    /\ lineCalls[1].op = "tokenize2" /\ lineCalls[1].order = 1
    /\ lineCalls[2].op = "tokenize2" /\ lineCalls[2].order = 2
    /\ lineCalls[1].theme = "vs" /\ lineCalls[2].theme = "vs-dark"
    /\ themeName = "vs-dark"
    /\ lineInputs[1] = lineInputs[2]
    /\ lineCalls[1].result.tokens = BinaryUnder(1, "vs")
    /\ lineCalls[2].result.tokens # lineCalls[1].result.tokens


-----------------------------------------------------------------------------
(* onLanguage: C28                                                         *)

\* The positions of the trace at which the callback was invoked.
Callbacks ==
    {k \in 1..Len(subscription.trace) : subscription.trace[k].step = "callback"}

\* The callback runs at most once, only for a created mode whose id is
\* languageId, and the listener has disposed its subscription just before;
\* nothing but a dispose, the listener's or the caller's, unsubscribes it.
OnceForItsLanguage ==
    /\ Cardinality(Callbacks) <= 1
    /\ subscription.calls = Cardinality(Callbacks)
    /\ \A k \in Callbacks :
          /\ subscription.trace[k].mode = subscription.languageId
          /\ k > 1
          /\ subscription.trace[k - 1].step = "dispose"
          /\ subscription.trace[k - 1].event = subscription.trace[k].event
          /\ ~subscription.trace[k].subscribed
    /\ subscription.languageId # "none"
       => (subscription.subscribed <=> subscription.disposedBy = "none")
    /\ subscription.disposedBy = "listener" => Callbacks # {}

C28_NoCallbackForLaterEvents ==
    /\ OnceForItsLanguage
    /\ \A k \in Callbacks : subscription.trace[k].disposedAtFire # "caller"

\* A mode of another language, then the mode of the language, then that
\* mode again: the callback ran for the second event only.
C28_Witness ==
    /\ subscription.languageId = "mylang"
    /\ modeEvents.fired = <<"plain", "mylang", "mylang">>
    /\ modeEvents.current = "none"
    /\ subscription.calls = 1
    /\ \A k \in Callbacks : subscription.trace[k].event = 2

-----------------------------------------------------------------------------
(* The built-in color declarations: C30                                    *)

\* The declarations that have run.
Loaded == 1..(builtins.next - 1)

\* C30: every identifier a built-in default refers to, directly or as the
\* argument of darken, lighten, transparent or lessProminent, was registered
\* by an earlier declaration, so no reference leads forward or to the
\* declaration itself, and no id is registered twice.
C30_ReferencesEarlier ==
    /\ \A k \in Loaded :
          /\ builtins.ids[k] = BuiltinColors[k].id
          /\ \A ref \in BuiltinColors[k].refs :
                /\ ref.via \in {"direct", "darken", "lighten", "transparent",
                                "lessProminent"}
                /\ \E j \in 1..(k - 1) : builtins.ids[j] = ref.id
    /\ \A j, k \in Loaded : j # k => builtins.ids[j] # builtins.ids[k]

\* Every declaration has run, among them a direct reference and references
\* through transparent and lessProminent.
C30_Witness ==
    /\ builtins.next = Len(BuiltinColors) + 1
    /\ Len(builtins.ids) = Len(ColorRegistryColors) + Len(EditorColors)
    /\ \A via \in {"direct", "darken", "lighten", "transparent", "lessProminent"} :
          \E k \in Loaded : \E ref \in BuiltinColors[k].refs : ref.via = via
    /\ \E k \in Loaded :
          /\ k > Len(ColorRegistryColors)
          /\ \E ref \in BuiltinColors[k].refs, j \in 1..Len(ColorRegistryColors) :
                ref.id = builtins.ids[j]


-----------------------------------------------------------------------------
(* The metadata word of the binary form: C29                               *)

\* The metadata TokenTheme.match gave raw token i of line l when its call ran.
LineMetadata(l, i) ==
    TokenThemeMatch(lineCalls[l].theme, LanguageIdentifier.id,
                    lineInputs[l].tokens[i].scopes)

\* The raw tokens of line l that begin a maximal run of equal metadata.
LineRunStarts(l) ==
    {i \in 1..Len(lineInputs[l].tokens) :
        i = 1 \/ LineMetadata(l, i) # LineMetadata(l, i - 1)}

\* The raw token that begins the k-th run of line l.
LineRunStart(l, k) ==
    CHOOSE i \in LineRunStarts(l) :
        Cardinality({j \in LineRunStarts(l) : j <= i}) = k

\* Bit b of a number, in two's complement for a negative one.
NumberBit(n, b) ==
    IF b = 31 THEN (IF n < 0 THEN 1 ELSE 0) ELSE (n \div (2 ^ b)) % 2

\* Bit b of an element of a Uint32Array.
ElementBit(element, b) ==
    IF b < 16 THEN (element.lo \div (2 ^ b)) % 2
    ELSE (element.hi \div (2 ^ (b - 16))) % 2

\* C29: the metadata entry of every pair tokenize2 emits has, bit for bit,
\* the 32 bits of the number TokenTheme.match returned for the first raw
\* token of the pair's run, bit 31 included: no field of the word is altered.
C29_MetadataBitExact ==
    \A l \in LineIds :
        lineCalls[l].op = "tokenize2"
        => /\ Len(lineCalls[l].result.tokens) = 2 * Cardinality(LineRunStarts(l))
           /\ \A k \in 1..Cardinality(LineRunStarts(l)) :
                 \A b \in 0..31 :
                    ElementBit(lineCalls[l].result.tokens[2 * k], b)
                        = NumberBit(LineMetadata(l, LineRunStart(l, k)), b)

\* A line of three runs tokenized under "hc-black": TokenTheme.match returns
\* negative numbers, stored with bit 31 set.
C29_Witness ==
    /\ lineCalls[1].op = "tokenize2"
    /\ lineCalls[1].theme = "hc-black"
    /\ Len(lineCalls[1].result.tokens) = 6
    /\ LineMetadata(1, 2) < 0
    /\ lineCalls[1].result.tokens[4].hi >= 32768
    /\ lineCalls[1].result.tokens[4].lo = 16384 + 7

====
